---- MODULE Spec2Model ----
(***************************************************************************)
(* A model of spdx_to_mermaid.py (package/src/spdx_to_mermaid.py): the     *)
(* identifier sanitizer, the quote escaper, the pre-parse timestamp patch, *)
(* the extractor, the label formatter, the diagram emitter and main().     *)
(*                                                                         *)
(* Text is modelled by TLA+ strings, read character by character with      *)
(* SubSeq; the text of a file is a sequence of code points, which holds    *)
(* the characters of every script.  A Python value that may be None is a   *)
(* sequence of length at most one: <<>> is None and <<v>> is the value v.  *)
(* A Python dict is a                                                      *)
(* sequence of <<key, value>> pairs in insertion order; an element's       *)
(* attribute dictionary is a record whose DOMAIN is its key set.           *)
(***************************************************************************)
EXTENDS Integers, Sequences, FiniteSets, TLC

VARIABLES
    pc,             \* position of the run: which step is next
    spdx_id,        \* sanitize_node_id: the id passed in
    node_id,        \* sanitize_node_id: the value returned
    text_in,        \* escape_quotes: the text passed in
    escaped,        \* escape_quotes: the value returned
    element,        \* format_node_label: element_id, element_data, element_type
    node_label,     \* format_node_label: the value returned
    args,           \* main: the parsed command line
    fs,             \* the file system: path -> <<>> (no file) or <<text>>,
                    \* text the code points of the file's content
    processed_file, \* main: the path returned by preprocess_spdx_file
    tmp_created,    \* paths of the temporary files this run has created
    doc,            \* the parsed document, None before parsing
    elements,       \* generate_mermaid_diagram: the mapping the nodes come from
    lines,          \* the local list `lines`: the statements of a diagram, or
                    \* the lines of a label when format_node_label runs alone
    mermaid,        \* the diagram text returned, None before generation
    stdout,         \* the texts standard output has taken from the run
    stderr,         \* the kinds of message the run printed to standard error
    exit_code       \* <<>> while running, <<n>> after termination

vars == <<pc, spdx_id, node_id, text_in, escaped, element, node_label, args, fs,
          processed_file, tmp_created, doc, elements, lines, mermaid, stdout,
          stderr, exit_code>>

-----------------------------------------------------------------------------
(* Python values *)

None == <<>>

Some(v) == <<v>>

\* Python truthiness of an Optional[str] / Optional[list]: None, "" and []
\* are falsy.
Truthy(o) == o # None /\ Len(o[1]) > 0

-----------------------------------------------------------------------------
(* str methods *)

Char(s, i) == SubSeq(s, i, i)

\* s[:n] for n >= 0
Prefix(s, n) == IF n >= Len(s) THEN s ELSE SubSeq(s, 1, n)

\* s[n:] for n >= 0 (n counts the characters dropped)
Suffix(s, n) == IF n >= Len(s) THEN "" ELSE SubSeq(s, n + 1, Len(s))

StartsWith(s, p) == Len(p) <= Len(s) /\ SubSeq(s, 1, Len(p)) = p

\* `p in s` for strings
Contains(s, p) == \E i \in 0..(Len(s) - Len(p)) : SubSeq(s, i + 1, i + Len(p)) = p

\* str.replace(old, new) for a non-empty old: one scan from the left over
\* non-overlapping occurrences; the replacement text is not rescanned.
RECURSIVE Replace(_, _, _)
Replace(s, old, new) ==
    IF Len(s) < Len(old) THEN s
    ELSE IF StartsWith(s, old)
         THEN new \o Replace(Suffix(s, Len(old)), old, new)
         ELSE Char(s, 1) \o Replace(Suffix(s, 1), old, new)

\* sep.join(list)
RECURSIVE Join(_, _)
Join(sep, list) ==
    IF list = <<>> THEN ""
    ELSE IF Len(list) = 1 THEN list[1]
    ELSE list[1] \o sep \o Join(sep, Tail(list))

-----------------------------------------------------------------------------
(* sanitize_node_id, escape_quotes *)

\* A sanitizer that forgets to replace '.'.
sanitize_node_id_keeps_dots(id) ==
    Replace(Replace(id, "SPDXRef-", ""), "-", "_")

sanitize_node_id(id) ==
    Replace(Replace(Replace(id, "SPDXRef-", ""), "-", "_"), ".", "_")

\* An escaper that puts a backslash before each double quote.
escape_quotes_backslash(text) == Replace(text, "\"", "\\\"")

escape_quotes(text) == Replace(text, "\"", "'")

-----------------------------------------------------------------------------
(* preprocess_spdx_file: the suffix test and the timestamp pattern *)

\* `suffix.lower() == '.json'`: the five characters of suffix are those of
\* ".json" in either case.  str.lower() maps no other character, of any
\* script, to one of `.`, `j`, `s`, `o`, `n`.
LowerIsJson(suffix) ==
    /\ Len(suffix) = 5
    /\ Char(suffix, 1) = "."
    /\ Char(suffix, 2) \in {"j", "J"}
    /\ Char(suffix, 3) \in {"s", "S"}
    /\ Char(suffix, 4) \in {"o", "O"}
    /\ Char(suffix, 5) \in {"n", "N"}

\* Path.name: the last component of the path as pathlib keeps it.  The
\* components are the pieces between '/'; empty pieces and '.' pieces are
\* dropped when the path is built, '..' is kept.  A path without components
\* ('', '.', '/') has the name ''.
PathName(path) ==
    LET n == Len(path)
        sep(i) == i = 0 \/ i = n + 1 \/ Char(path, i) = "/"
        comps == {c \in (1..n) \X (1..n) :
                     /\ c[1] <= c[2]
                     /\ sep(c[1] - 1) /\ sep(c[2] + 1)
                     /\ \A k \in c[1]..c[2] : Char(path, k) # "/"
                     /\ SubSeq(path, c[1], c[2]) # "."}
    IN  IF comps = {} THEN ""
        ELSE LET last == CHOOSE c \in comps : \A d \in comps : d[1] <= c[1]
             IN  SubSeq(path, last[1], last[2])

\* Path.suffix: of the name, from its last '.' on; empty when the name has
\* none, when the only one leads the name or when the name ends with it
PathSuffix(path) ==
    LET name == PathName(path)
        dots == {i \in 2..Len(name) : Char(name, i) = "."}
    IN  IF dots = {} \/ Char(name, Len(name)) = "." THEN ""
        ELSE Suffix(name, (CHOOSE i \in dots : \A j \in dots : j <= i) - 1)

\* The text of a file, as read_text returns it and as the pattern sees it,
\* is a sequence of code points, so that a character of any script has a
\* place in it.  CharsLow holds the characters U+0020..U+005F and CharsHigh
\* the characters U+0061..U+007E in code point order (U+0060 cannot be
\* written in a string of a module); ord is Python's ord on these and on
\* the line feed.
CharsLow ==
    " !\"#$%&'()*+,-./0123456789:;<=>?@ABCDEFGHIJKLMNOPQRSTUVWXYZ[\\]^_"

CharsHigh == "abcdefghijklmnopqrstuvwxyz{|}~"

OrdTable ==
    [c \in {Char(CharsLow, i) : i \in 1..Len(CharsLow)}
           \cup {Char(CharsHigh, i) : i \in 1..Len(CharsHigh)} \cup {"\n"} |->
        IF c = "\n" THEN 10
        ELSE IF \E i \in 1..Len(CharsLow) : Char(CharsLow, i) = c
        THEN 31 + (CHOOSE i \in 1..Len(CharsLow) : Char(CharsLow, i) = c)
        ELSE 96 + (CHOOSE i \in 1..Len(CharsHigh) : Char(CharsHigh, i) = c)]

ord(c) == OrdTable[c]

\* the code points of a str written with the characters of Chars
CodePoints(s) == [i \in 1..Len(s) |-> ord(Char(s, i))]

\* text[n:] of a text
Drop(text, n) == SubSeq(text, n + 1, Len(text))

\* The code points of the digit zero of every script with decimal digits;
\* the nine that follow each are its digits one to nine.
DecimalZeros ==
    {48, 1632, 1776, 1984, 2406, 2534, 2662, 2790, 2918, 3046, 3174, 3302, 3430,
     3558, 3664, 3792, 3872, 4160, 4240, 6112, 6160, 6470, 6608, 6784, 6800,
     6992, 7088, 7232, 7248, 42528, 43216, 43264, 43472, 43504, 43600, 44016,
     65296, 66720, 68912, 69734, 69872, 69942, 70096, 70384, 70736, 70864,
     71248, 71360, 71472, 71904, 72016, 72784, 73040, 73120, 92768, 92864,
     93008, 120782, 120792, 120802, 120812, 120822, 123200, 123632, 125264,
     130032}

\* `\d` on one code point.  In a str pattern \d matches the decimal digits
\* of every script (Unicode category Nd), not the ten ASCII ones only.
IsDigit(c) == \E z \in DecimalZeros : c \in z..(z + 9)

\* \d{4}-\d{2}-\d{2}T\d{2}:\d{2}:\d{2} against the 19 code points of t
IsTimestamp(t) ==
    /\ Len(t) = 19
    /\ \A i \in {1, 2, 3, 4, 6, 7, 9, 10, 12, 13, 15, 16, 18, 19} : IsDigit(t[i])
    /\ t[5] = ord("-") /\ t[8] = ord("-") /\ t[11] = ord("T")
    /\ t[14] = ord(":") /\ t[17] = ord(":")

\* timestamp_pattern matches at the start of s: a quote, the timestamp, a
\* quote, and no Z right after the closing quote
MatchesTimestampPattern(s) ==
    /\ Len(s) >= 21
    /\ s[1] = ord("\"") /\ s[21] = ord("\"")
    /\ IsTimestamp(SubSeq(s, 2, 20))
    /\ ~(Len(s) >= 22 /\ s[22] = ord("Z"))

\* re.search(timestamp_pattern, content) finds a match
NeedsFix(content) ==
    \E i \in 0..(Len(content) - 21) : MatchesTimestampPattern(Drop(content, i))

\* re.sub(timestamp_pattern, r'"\1Z"', content)
RECURSIVE FixTimestamps(_)
FixTimestamps(content) ==
    IF Len(content) < 21 THEN content
    ELSE IF MatchesTimestampPattern(content)
         THEN SubSeq(content, 1, 20) \o CodePoints("Z\"")
              \o FixTimestamps(Drop(content, 21))
         ELSE SubSeq(content, 1, 1) \o FixTimestamps(Drop(content, 1))

-----------------------------------------------------------------------------
(* format_node_label *)

\* `key in element_data`
Has(element_data, key) == key \in DOMAIN element_data

\* `key in element_data and element_data[key]`
HasTruthy(element_data, key) == Has(element_data, key) /\ Truthy(element_data[key])

\* A truncation that also cuts a text exactly as long as the limit.
Truncate_at_limit(s, limit, keep) ==
    IF Len(s) >= limit THEN Prefix(s, keep) \o "..." ELSE s

\* `if len(s) > limit: s = s[:keep] + "..."`
Truncate(s, limit, keep) == IF Len(s) > limit THEN Prefix(s, keep) \o "..." ELSE s

\* f"{value}" of a bool or None
FormatBool(o) == IF o = None THEN "None" ELSE IF o[1] THEN "True" ELSE "False"

\* dict.get(key, default)
DictGet(d, key, default) == IF key \in DOMAIN d THEN d[key] ELSE default

\* the lines of `for checksum in checksums[:2]`
RECURSIVE ChecksumLines(_)
ChecksumLines(checksums) ==
    IF checksums = <<>> THEN <<>>
    ELSE <<DictGet(checksums[1], "algorithm", "") \o ": "
             \o Prefix(DictGet(checksums[1], "checksumValue", ""), 12) \o "...">>
         \o ChecksumLines(Tail(checksums))

\* the lines of `for ref in element_data["externalRefs"][:limit]`
RECURSIVE ExternalRefLines(_)
ExternalRefLines(refs) ==
    IF refs = <<>> THEN <<>>
    ELSE <<DictGet(refs[1], "referenceType", "") \o ": "
             \o escape_quotes(Truncate(DictGet(refs[1], "referenceLocator", ""), 40, 37))>>
         \o ExternalRefLines(Tail(refs))

\* `[f"{prefix}{text}"] if key in element_data and element_data[key] else []`
FieldLine(element_data, key, prefix) ==
    IF HasTruthy(element_data, key)
    THEN <<prefix \o escape_quotes(element_data[key][1])>>
    ELSE <<>>

\* the same for a field truncated after quote replacement
TruncatedFieldLine(element_data, key, prefix, limit, keep) ==
    IF HasTruthy(element_data, key)
    THEN <<prefix \o Truncate(escape_quotes(element_data[key][1]), limit, keep)>>
    ELSE <<>>

HeaderLines(element_data, element_type) ==
    IF HasTruthy(element_data, "primaryPackagePurpose")
    THEN <<"[" \o element_type \o " - " \o element_data["primaryPackagePurpose"][1] \o "]">>
    ELSE <<"[" \o element_type \o "]">>

\* A name line that falls back to the sanitized node identifier.
NameLines_sanitized_id(element_id, element_data) ==
    IF HasTruthy(element_data, "name")
    THEN <<"Name: " \o escape_quotes(element_data["name"][1])>>
    ELSE <<"ID: " \o escape_quotes(sanitize_node_id(element_id))>>

NameLines(element_id, element_data) ==
    IF HasTruthy(element_data, "name")
    THEN <<"Name: " \o escape_quotes(element_data["name"][1])>>
    ELSE <<"ID: " \o escape_quotes(element_id)>>

\* An optional block that renders the homepage before the copyright.
OptionalLines_homepage_before_copyright(element_data) ==
    TruncatedFieldLine(element_data, "downloadLocation", "Download: ", 50, 47)
    \o FieldLine(element_data, "supplier", "Supplier: ")
    \o FieldLine(element_data, "originator", "Originator: ")
    \o (IF Has(element_data, "filesAnalyzed")
        THEN <<"Files Analyzed: " \o FormatBool(element_data["filesAnalyzed"])>>
        ELSE <<>>)
    \o (IF HasTruthy(element_data, "verificationCode")
        THEN <<"Verification: " \o element_data["verificationCode"][1]>>
        ELSE <<>>)
    \o (IF HasTruthy(element_data, "checksums")
        THEN ChecksumLines(Prefix(element_data["checksums"][1], 2))
        ELSE <<>>)
    \o FieldLine(element_data, "homepage", "Homepage: ")
    \o TruncatedFieldLine(element_data, "copyrightText", "Copyright: ", 40, 37)
    \o TruncatedFieldLine(element_data, "comment", "Comment: ", 50, 47)

\* lines 164-215: the block skipped in compact mode
OptionalLines(element_data) ==
    TruncatedFieldLine(element_data, "downloadLocation", "Download: ", 50, 47)
    \o FieldLine(element_data, "supplier", "Supplier: ")
    \o FieldLine(element_data, "originator", "Originator: ")
    \o (IF Has(element_data, "filesAnalyzed")
        THEN <<"Files Analyzed: " \o FormatBool(element_data["filesAnalyzed"])>>
        ELSE <<>>)
    \o (IF HasTruthy(element_data, "verificationCode")
        THEN <<"Verification: " \o element_data["verificationCode"][1]>>
        ELSE <<>>)
    \o (IF HasTruthy(element_data, "checksums")
        THEN ChecksumLines(Prefix(element_data["checksums"][1], 2))
        ELSE <<>>)
    \o TruncatedFieldLine(element_data, "copyrightText", "Copyright: ", 40, 37)
    \o TruncatedFieldLine(element_data, "comment", "Comment: ", 50, 47)
    \o FieldLine(element_data, "homepage", "Homepage: ")

\* lines 217-232
DocumentLines(element_data) ==
    FieldLine(element_data, "created", "Created: ")
    \o (IF HasTruthy(element_data, "creators")
        THEN <<"Creators: "
                 \o escape_quotes(Truncate(Join(", ", element_data["creators"][1]), 50, 47))>>
        ELSE <<>>)
    \o TruncatedFieldLine(element_data, "namespace", "Namespace: ", 50, 47)
    \o FieldLine(element_data, "dataLicense", "Data License: ")

\* Package fields whose compact mode cuts the locator of the external
\* reference at 20 characters.
PackageLines_compact_shortens_locator(element_data, compact, exclude_external_refs) ==
    (IF ~compact THEN FieldLine(element_data, "licenseDeclared", "License Declared: ")
     ELSE <<>>)
    \o (IF ~compact
        THEN TruncatedFieldLine(element_data, "packageFileName", "Package File: ", 50, 47)
        ELSE <<>>)
    \o (IF ~exclude_external_refs /\ HasTruthy(element_data, "externalRefs")
        THEN IF compact
             THEN <<DictGet(element_data["externalRefs"][1][1], "referenceType", "") \o ": "
                      \o escape_quotes(Truncate(DictGet(element_data["externalRefs"][1][1],
                                                        "referenceLocator", ""), 20, 17))>>
             ELSE ExternalRefLines(Prefix(element_data["externalRefs"][1], 2))
        ELSE <<>>)

\* Package fields that show two external references in compact mode too.
PackageLines_two_refs_in_compact(element_data, compact, exclude_external_refs) ==
    (IF ~compact THEN FieldLine(element_data, "licenseDeclared", "License Declared: ")
     ELSE <<>>)
    \o (IF ~compact
        THEN TruncatedFieldLine(element_data, "packageFileName", "Package File: ", 50, 47)
        ELSE <<>>)
    \o (IF ~exclude_external_refs /\ HasTruthy(element_data, "externalRefs")
        THEN ExternalRefLines(Prefix(element_data["externalRefs"][1], 2))
        ELSE <<>>)

\* lines 234-252
PackageLines(element_data, compact, exclude_external_refs) ==
    (IF ~compact THEN FieldLine(element_data, "licenseDeclared", "License Declared: ")
     ELSE <<>>)
    \o (IF ~compact
        THEN TruncatedFieldLine(element_data, "packageFileName", "Package File: ", 50, 47)
        ELSE <<>>)
    \o (IF ~exclude_external_refs /\ HasTruthy(element_data, "externalRefs")
        THEN ExternalRefLines(Prefix(element_data["externalRefs"][1],
                                     IF compact THEN 1 ELSE 2))
        ELSE <<>>)

\* A label whose document fields are rendered in compact mode too.
LabelLines_document_fields_in_compact(element_id, element_data, element_type, compact, exclude_external_refs) ==
    HeaderLines(element_data, element_type)
    \o NameLines(element_id, element_data)
    \o TruncatedFieldLine(element_data, "summary", "Summary: ", 60, 57)
    \o FieldLine(element_data, "version", "Version: ")
    \o FieldLine(element_data, "licenseConcluded", "License: ")
    \o TruncatedFieldLine(element_data, "licenseComments", "License Note: ", 60, 57)
    \o (IF ~compact THEN OptionalLines(element_data) ELSE <<>>)
    \o (IF element_type = "Document" THEN DocumentLines(element_data) ELSE <<>>)
    \o (IF element_type = "Package"
        THEN PackageLines(element_data, compact, exclude_external_refs)
        ELSE <<>>)

\* the list `lines` of format_node_label before it is joined
LabelLines(element_id, element_data, element_type, compact, exclude_external_refs) ==
    HeaderLines(element_data, element_type)
    \o NameLines(element_id, element_data)
    \o TruncatedFieldLine(element_data, "summary", "Summary: ", 60, 57)
    \o FieldLine(element_data, "version", "Version: ")
    \o FieldLine(element_data, "licenseConcluded", "License: ")
    \o TruncatedFieldLine(element_data, "licenseComments", "License Note: ", 60, 57)
    \o (IF ~compact THEN OptionalLines(element_data) ELSE <<>>)
    \o (IF element_type = "Document" /\ ~compact THEN DocumentLines(element_data) ELSE <<>>)
    \o (IF element_type = "Package"
        THEN PackageLines(element_data, compact, exclude_external_refs)
        ELSE <<>>)

format_node_label(element_id, element_data, element_type, compact, exclude_external_refs) ==
    Join("\n", LabelLines(element_id, element_data, element_type, compact,
                          exclude_external_refs))

-----------------------------------------------------------------------------
(* dict: a sequence of <<key, value>> pairs, keys unique, insertion order *)

DictKeys(d) == {d[i][1] : i \in 1..Len(d)}

\* d[key] = value: a key already present keeps its position
DictSet(d, key, value) ==
    IF key \in DictKeys(d)
    THEN [i \in 1..Len(d) |-> IF d[i][1] = key THEN <<key, value>> ELSE d[i]]
    ELSE Append(d, <<key, value>>)

\* d.update(other)
RECURSIVE DictUpdate(_, _)
DictUpdate(d, other) ==
    IF other = <<>> THEN d
    ELSE DictUpdate(DictSet(d, other[1][1], other[1][2]), Tail(other))

\* {k: v for k, v in d.items() if v["type"] == type}
DictOfType(d, type) == SelectSeq(d, LAMBDA item : item[2].type = type)

\* {k: v for k, v in d.items() if v["type"] != type}
DictNotOfType(d, type) == SelectSeq(d, LAMBDA item : item[2].type # type)

\* list[:n] for any integer n (a negative n counts from the end)
SliceTo(list, n) ==
    IF n >= 0 THEN Prefix(list, n)
    ELSE IF Len(list) + n <= 0 THEN <<>> ELSE SubSeq(list, 1, Len(list) + n)

-----------------------------------------------------------------------------
(* extract_elements_from_document *)

\* The parsed document is a record of the parser's object graph.  An
\* attribute that holds an Actor, a licence expression, a datetime or one of
\* the SpdxNoAssertion / SpdxNone markers is carried as its str() rendering;
\* an enum member is a record [cls, name], rendered by EnumStr.
HasAttr(obj, attr) == attr \in DOMAIN obj

\* str() of an enum member
EnumStr(e) == e.cls \o "." \o e.name

\* `x if hasattr(obj, attr) and obj.attr else None`, obj.attr an Optional[str]
AttrIfTruthy(obj, attr) ==
    IF HasAttr(obj, attr) /\ Truthy(obj[attr]) THEN obj[attr] ELSE None

\* `str(obj.attr) if hasattr(obj, attr) and obj.attr is not None else None`;
\* also the `and obj.attr` test of an attribute holding an object, which is
\* falsy only when None
AttrIfNotNone(obj, attr) ==
    IF HasAttr(obj, attr) /\ obj[attr] # None THEN obj[attr] ELSE None

\* `x if hasattr(obj, attr) else default`
AttrOr(obj, attr, default) == IF HasAttr(obj, attr) THEN obj[attr] ELSE default

\* str(x) of an attribute value: "None" for None, else the rendering it is
\* carried as
Str(o) == IF o = None THEN "None" ELSE o[1]

\* `str(obj.attr) if hasattr(obj, attr) else None`
StrAttrOrNone(obj, attr) == IF HasAttr(obj, attr) THEN Some(Str(obj[attr])) ELSE None

\* str(obj) of an object of the graph itself: the record carries the
\* rendering under "__str__".  A plain str s met where an object is expected
\* is the record [__str__ |-> s]: it has no attribute and str() of it is s.
ObjStr(obj) == obj["__str__"]

\* an exception that leaves the function
TypeError == [raised |-> "TypeError"]

ChecksumDicts(checksums) ==
    [i \in 1..Len(checksums) |->
        [algorithm |-> EnumStr(checksums[i].algorithm),
         checksumValue |-> checksums[i].value]]

ExternalRefDicts(refs) ==
    [i \in 1..Len(refs) |->
        [referenceType |-> IF HasAttr(refs[i], "reference_type")
                           THEN refs[i].reference_type
                           ELSE EnumStr(refs[i].category),
         referenceLocator |-> IF HasAttr(refs[i], "locator")
                              THEN refs[i].locator
                              ELSE ObjStr(refs[i]),
         referenceCategory |-> IF HasAttr(refs[i], "category")
                               THEN EnumStr(refs[i].category) ELSE ""]]

\* line 281: `for c in doc.creation_info.creators` raises TypeError when the
\* attribute is there and holds None
ExtractRaises(d) ==
    HasAttr(d.creation_info, "creators") /\ d.creation_info.creators = None

\* lines 267-287
DocumentData(d) ==
    LET ci == d.creation_info IN
    [type |-> "Document",
     name |-> IF HasAttr(ci, "name") THEN ci.name ELSE d.name,
     version |-> AttrOr(ci, "spdx_version", None),
     namespace |-> AttrOr(ci, "document_namespace", None),
     created |-> StrAttrOrNone(ci, "created"),
     creators |-> AttrOr(ci, "creators", Some(<<>>)),
     dataLicense |-> AttrOr(ci, "data_license", None)]

\* lines 291-355
PackageData(package) ==
    [type |-> "Package",
     name |-> package.name,
     version |-> AttrIfTruthy(package, "version"),
     downloadLocation |-> StrAttrOrNone(package, "download_location"),
     filesAnalyzed |-> AttrOr(package, "files_analyzed", None),
     supplier |-> AttrIfNotNone(package, "supplier"),
     originator |-> AttrIfNotNone(package, "originator"),
     homepage |-> AttrIfTruthy(package, "homepage"),
     licenseConcluded |-> AttrIfNotNone(package, "license_concluded"),
     licenseDeclared |-> AttrIfNotNone(package, "license_declared"),
     licenseComments |-> AttrIfTruthy(package, "license_comment"),
     copyrightText |-> AttrIfTruthy(package, "copyright_text"),
     comment |-> AttrIfTruthy(package, "comment"),
     summary |-> AttrIfTruthy(package, "summary"),
     primaryPackagePurpose |->
        IF HasAttr(package, "primary_package_purpose")
           /\ package.primary_package_purpose # None
        THEN Some(EnumStr(package.primary_package_purpose[1]))
        ELSE None,
     checksums |->
        IF HasAttr(package, "checksums") /\ package.checksums # <<>>
        THEN Some(ChecksumDicts(package.checksums)) ELSE Some(<<>>),
     verificationCode |->
        IF HasAttr(package, "verification_code") /\ package.verification_code # None
        THEN Some(package.verification_code[1].value) ELSE None,
     packageFileName |-> AttrIfTruthy(package, "file_name"),
     externalRefs |->
        IF HasAttr(package, "external_references") /\ package.external_references # <<>>
        THEN Some(ExternalRefDicts(package.external_references)) ELSE Some(<<>>)]

\* lines 360-378
FileData(file) ==
    [type |-> "File",
     name |-> file.name,
     licenseConcluded |-> AttrIfNotNone(file, "license_concluded"),
     copyrightText |-> AttrIfTruthy(file, "copyright_text"),
     comment |-> AttrIfTruthy(file, "comment"),
     checksums |->
        IF HasAttr(file, "checksums") /\ file.checksums # <<>>
        THEN Some(ChecksumDicts(file.checksums)) ELSE Some(<<>>)]

\* lines 383-397
SnippetData(snippet) ==
    [type |-> "Snippet",
     name |-> IF HasAttr(snippet, "name") /\ Truthy(snippet.name)
              THEN snippet.name ELSE Some(snippet.spdx_id),
     comment |-> AttrIfTruthy(snippet, "comment"),
     licenseConcluded |-> AttrIfNotNone(snippet, "license_concluded"),
     copyrightText |-> AttrIfTruthy(snippet, "copyright_text")]

\* `for package in doc.packages: elements[package.spdx_id] = {...}`
AddPackages(elems, packages) ==
    DictUpdate(elems, [i \in 1..Len(packages) |->
                          <<packages[i].spdx_id, PackageData(packages[i])>>])

\* `for file in doc.files: elements[file.spdx_id] = {...}`
AddFiles(elems, files) ==
    DictUpdate(elems, [i \in 1..Len(files) |->
                          <<files[i].spdx_id, FileData(files[i])>>])

\* `for snippet in doc.snippets: elements[snippet.spdx_id] = {...}`
AddSnippets(elems, snippets) ==
    DictUpdate(elems, [i \in 1..Len(snippets) |->
                          <<snippets[i].spdx_id, SnippetData(snippets[i])>>])

\* the mapping, or the exception the document's entry raises
extract_elements_from_document(d) ==
    IF ExtractRaises(d) THEN TypeError
    ELSE LET e0 == <<<<"SPDXRef-DOCUMENT", DocumentData(d)>>>>
             e1 == AddPackages(e0, d.packages)
             e2 == AddFiles(e1, d.files)
         IN  AddSnippets(e2, d.snippets)

-----------------------------------------------------------------------------
(* generate_mermaid_diagram *)

\* A cap that keeps the document element alone beside the limited packages.
LimitPackages_keeps_document_only(elems, max_packages) ==
    IF max_packages = None THEN elems
    ELSE LET package_elements == DictOfType(elems, "Package") IN
         IF Len(package_elements) > max_packages[1]
         THEN DictUpdate(DictOfType(elems, "Document"),
                         SliceTo(package_elements, max_packages[1]))
         ELSE elems

\* lines 415-422; max_packages is None or Some(n)
LimitPackages(elems, max_packages) ==
    IF max_packages = None THEN elems
    ELSE LET package_elements == DictOfType(elems, "Package") IN
         IF Len(package_elements) > max_packages[1]
         THEN DictUpdate(DictNotOfType(elems, "Package"),
                         SliceTo(package_elements, max_packages[1]))
         ELSE elems

\* A colour lookup that compares the purpose with "SOURCE" instead of
\* searching it.
PackageStyle_purpose_equals(nid, element_data) ==
    LET purpose == IF Has(element_data, "primaryPackagePurpose")
                   THEN element_data["primaryPackagePurpose"] ELSE None
    IN  IF Truthy(purpose) /\ purpose[1] = "SOURCE"
        THEN "    style " \o nid \o " fill:#fff3e0,stroke:#e65100,stroke-width:2px"
        ELSE "    style " \o nid \o " fill:#f3e5f5,stroke:#4a148c,stroke-width:2px"

\* lines 445-460: the style statement of a package node
PackageStyle(nid, element_data) ==
    LET purpose == IF Has(element_data, "primaryPackagePurpose")
                   THEN element_data["primaryPackagePurpose"] ELSE None
    IN  IF Truthy(purpose) /\ Contains(purpose[1], "SOURCE")
        THEN "    style " \o nid \o " fill:#fff3e0,stroke:#e65100,stroke-width:2px"
        ELSE IF Truthy(purpose) /\ Contains(purpose[1], "APPLICATION")
        THEN "    style " \o nid \o " fill:#f3e5f5,stroke:#4a148c,stroke-width:2px"
        ELSE "    style " \o nid \o " fill:#f3e5f5,stroke:#4a148c,stroke-width:2px"

\* lines 436-470: the style statement of a node, <<>> for an unknown type
StyleLine(nid, element_data) ==
    LET element_type == element_data.type IN
    IF element_type = "Document"
    THEN <<"    style " \o nid \o " fill:#e1f5ff,stroke:#01579b,stroke-width:3px">>
    ELSE IF element_type = "Package" THEN <<PackageStyle(nid, element_data)>>
    ELSE IF element_type = "File"
    THEN <<"    style " \o nid \o " fill:#e8f5e9,stroke:#1b5e20,stroke-width:2px">>
    ELSE IF element_type = "Snippet"
    THEN <<"    style " \o nid \o " fill:#fff3e0,stroke:#e65100,stroke-width:2px">>
    ELSE <<>>

NodeLine(nid, label) == "    " \o nid \o "[\"" \o label \o "\"]"

\* lines 432-470: the statements of one element
ElementLines(element_id, element_data, compact, exclude_external_refs) ==
    LET nid == sanitize_node_id(element_id)
        element_type == element_data.type
        label == format_node_label(element_id, element_data, element_type,
                                   compact, exclude_external_refs)
        style == StyleLine(nid, element_data)
    IN  IF style = <<>> THEN <<>> ELSE <<NodeLine(nid, label)>> \o style

\* A node pass that consults added_nodes and skips an element whose node
\* identifier was already added.
RECURSIVE NodeLinesFrom(_, _, _, _)
NodeLinesFrom(elems, added_nodes, compact, exclude_external_refs) ==
    IF elems = <<>> THEN <<>>
    ELSE LET nid == sanitize_node_id(elems[1][1]) IN
         (IF nid \in added_nodes THEN <<>>
          ELSE ElementLines(elems[1][1], elems[1][2], compact, exclude_external_refs))
         \o NodeLinesFrom(Tail(elems), added_nodes \cup {nid}, compact,
                          exclude_external_refs)

NodeLines_skips_added(elems, compact, exclude_external_refs) ==
    NodeLinesFrom(elems, {}, compact, exclude_external_refs)

\* lines 431-472
RECURSIVE NodeLines(_, _, _)
NodeLines(elems, compact, exclude_external_refs) ==
    IF elems = <<>> THEN <<>>
    ELSE ElementLines(elems[1][1], elems[1][2], compact, exclude_external_refs)
         \o NodeLines(Tail(elems), compact, exclude_external_refs)

\* lines 479-486
EdgeLabel(relationship) ==
    LET rel_type == IF HasAttr(relationship.relationship_type, "name")
                    THEN relationship.relationship_type.name
                    ELSE ObjStr(relationship.relationship_type)
    IN  IF HasAttr(relationship, "comment") /\ Truthy(relationship.comment)
        THEN rel_type \o "<br/>" \o escape_quotes(relationship.comment[1])
        ELSE rel_type

\* An edge drawn from the source to the generated element for GENERATED_FROM.
EdgeLine_reverses_generated_from(relationship) ==
    LET source_id == sanitize_node_id(relationship.spdx_element_id)
        target_id == sanitize_node_id(relationship.related_spdx_element_id)
        reversed == relationship.relationship_type.name = "GENERATED_FROM"
    IN  "    " \o (IF reversed THEN target_id ELSE source_id)
        \o " -->|\"" \o EdgeLabel(relationship) \o "\"| "
        \o (IF reversed THEN source_id ELSE target_id)

\* lines 476-490
EdgeLine(relationship) ==
    "    " \o sanitize_node_id(relationship.spdx_element_id)
    \o " -->|\"" \o EdgeLabel(relationship) \o "\"| "
    \o sanitize_node_id(relationship.related_spdx_element_id)

\* An edge pass that skips a relationship whose target is not an element
\* reference.
EdgeLines_skips_unresolved(relationships) ==
    LET resolved == SelectSeq(relationships,
                        LAMBDA r : StartsWith(r.related_spdx_element_id, "SPDXRef-"))
    IN  [i \in 1..Len(resolved) |-> EdgeLine(resolved[i])]

\* lines 475-490
EdgeLines(relationships) == [i \in 1..Len(relationships) |-> EdgeLine(relationships[i])]

\* lines 493-500
LegendLines ==
    <<"",
      "    %% Legend",
      "    legend[\"Legend:<br/>Blue = Document<br/>Purple = Package (APPLICATION)<br/>Orange = Package (SOURCE)<br/>Green = File<br/>Orange = Snippet\"]",
      "    style legend fill:#fafafa,stroke:#666,stroke-width:1px,stroke-dasharray: 5 5">>

\* lines 424-500: the list `lines` built from the (capped) mapping
DiagramLines(elems, relationships, compact, exclude_external_refs) ==
    <<"graph LR">>
    \o NodeLines(elems, compact, exclude_external_refs)
    \o EdgeLines(relationships)
    \o LegendLines

\* Which statement of the source writes each line of `lines`, and the
\* identifier it formats into the line, after the indent (node and edge) or
\* after `style `: "graph" is line 425, "node" lines 438, 443, 462 and 467,
\* "style" the append that follows each of them, "edge" line 490 and
\* "legend" the four literal lines of 493-500, which format no identifier.
ElementSites(element_id, element_data) ==
    LET nid == sanitize_node_id(element_id) IN
    IF element_data.type \in {"Document", "Package", "File", "Snippet"}
    THEN <<[by |-> "node", id |-> nid], [by |-> "style", id |-> nid]>>
    ELSE <<>>

RECURSIVE NodeSites(_)
NodeSites(elems) ==
    IF elems = <<>> THEN <<>>
    ELSE ElementSites(elems[1][1], elems[1][2]) \o NodeSites(Tail(elems))

EdgeSites(relationships) ==
    [i \in 1..Len(relationships) |->
        [by |-> "edge", id |-> sanitize_node_id(relationships[i].spdx_element_id)]]

LegendSites == [i \in 1..4 |-> [by |-> "legend", id |-> ""]]

DiagramSites(elems, relationships) ==
    <<[by |-> "graph", id |-> ""]>>
    \o NodeSites(elems)
    \o EdgeSites(relationships)
    \o LegendSites

\* the diagram text, or the exception of the extraction at line 413
generate_mermaid_diagram(d, compact, max_packages, exclude_external_refs) ==
    IF ExtractRaises(d) THEN TypeError
    ELSE Join("\n", DiagramLines(LimitPackages(extract_elements_from_document(d),
                                               max_packages),
                                 d.relationships, compact, exclude_external_refs))

-----------------------------------------------------------------------------
(* Bounds and input domains *)

MaxIdTokens == 4

\* The pieces ids are built from: the prefix whole, the prefix without its
\* dash (so that removing one occurrence can re-form it), the replaced
\* punctuation, and ordinary characters.
IdTokens == {"SPDXRef-", "SPDXRef", "-", ".", "x", "_"}

RECURSIVE Concat(_)
Concat(seq) == IF seq = <<>> THEN "" ELSE seq[1] \o Concat(Tail(seq))

SeqsUpTo(S, n) == UNION {[1..k -> S] : k \in 0..n}

IdStrings == {Concat(t) : t \in SeqsUpTo(IdTokens, MaxIdTokens)}

-----------------------------------------------------------------------------
(* The sanitizer applied to one id *)

InitSanitize ==
    /\ pc = "sanitize"
    /\ spdx_id \in IdStrings
    /\ node_id = None
    /\ text_in = "" /\ escaped = None /\ element = None /\ node_label = None
    /\ args = None /\ fs = <<>> /\ processed_file = None /\ tmp_created = {}
    /\ doc = None /\ elements = <<>> /\ lines = <<>> /\ mermaid = None
    /\ stdout = <<>> /\ stderr = <<>> /\ exit_code = None

Sanitize ==
    /\ pc = "sanitize"
    /\ node_id' = Some(sanitize_node_id(spdx_id))
    /\ pc' = "sanitized"
    /\ UNCHANGED <<text_in, escaped, element, node_label>>
    /\ UNCHANGED <<spdx_id, args, fs, processed_file, tmp_created, doc, elements,
                   lines, mermaid, stdout, stderr, exit_code>>

NextSanitize == Sanitize

SpecSanitize == InitSanitize /\ [][NextSanitize]_vars

\* C1: sanitize_node_id is idempotent and its output is clean: sanitizing a
\* sanitized id returns it unchanged, and the output holds no '-', no '.'
\* and no occurrence of the prefix 'SPDXRef-'.
SanitizeIdempotentClean ==
    pc = "sanitized" =>
        /\ sanitize_node_id(node_id[1]) = node_id[1]
        /\ ~Contains(node_id[1], "-")
        /\ ~Contains(node_id[1], ".")
        /\ ~Contains(node_id[1], "SPDXRef-")

\* The id of the claim's example, where removing the prefix once re-forms it.
SanitizeReformedPrefix ==
    /\ pc = "sanitized"
    /\ spdx_id = "SPDXRefSPDXRef--x"
    /\ node_id = Some("SPDXRef_x")

-----------------------------------------------------------------------------
(* Parsed documents *)

\* the most packages, files, snippets and relationships, together, in a document
MaxItems == 3

\* the largest value of --max-packages
MaxCap == 2

Purpose(name) == Some([cls |-> "PackagePurpose", name |-> name])

PackageObj(id, purpose, name) ==
    [spdx_id |-> id,
     name |-> Some(name),
     version |-> Some("1.0"),
     download_location |-> Some("NOASSERTION"),
     files_analyzed |-> Some(FALSE),
     supplier |-> None,
     originator |-> Some("Person: \"A\""),
     homepage |-> Some(""),
     license_concluded |-> Some("MIT"),
     license_declared |-> None,
     license_comment |-> None,
     copyright_text |-> None,
     comment |-> None,
     summary |-> Some("a \"b\""),
     primary_package_purpose |-> purpose,
     checksums |-> <<[algorithm |-> [cls |-> "ChecksumAlgorithm", name |-> "SHA1"],
                      value |-> "da39a3ee5e6b4b0d"]>>,
     verification_code |-> None,
     file_name |-> Some("p.tgz"),
     external_references |->
        <<[category |-> [cls |-> "ExternalPackageRefCategory", name |-> "PACKAGE_MANAGER"],
           reference_type |-> "purl",
           locator |-> "pkg:nix/p@1.0"]>>]

\* Two ids that differ only in the punctuation the sanitizer replaces, the
\* document's own id, and each purpose branch of the colour lookup.
PackageChoices ==
    {PackageObj("SPDXRef-a-b", Purpose("SOURCE"), "ab"),
     PackageObj("SPDXRef-a.b", Purpose("APPLICATION"), "a.b"),
     PackageObj("SPDXRef-lib", Purpose("LIBRARY"), ""),
     PackageObj("SPDXRef-DOCUMENT", None, "p")}

FileObj(id) ==
    [spdx_id |-> id,
     name |-> Some("main.c"),
     license_concluded |-> None,
     copyright_text |-> None,
     comment |-> Some("a file"),
     checksums |-> <<>>]

FileChoices == {FileObj("SPDXRef-main.c"), FileObj("SPDXRef-a_b")}

SnippetObj(id) ==
    [spdx_id |-> id,
     name |-> None,
     comment |-> None,
     license_concluded |-> Some("MIT"),
     copyright_text |-> None]

SnippetChoices == {SnippetObj("SPDXRef-snip")}

RelationshipObj(source, target, kind, comment) ==
    [spdx_element_id |-> source,
     related_spdx_element_id |-> target,
     relationship_type |-> [cls |-> "RelationshipType", name |-> kind],
     comment |-> comment]

\* Endpoints that are packages a cap can drop, the NOASSERTION marker (which
\* no element has as its id), and a comment that is absent, quoted or empty.
RelationshipChoices ==
    {RelationshipObj("SPDXRef-DOCUMENT", "SPDXRef-a-b", "DESCRIBES", None),
     RelationshipObj("SPDXRef-a-b", "SPDXRef-lib", "GENERATED_FROM", Some("built \"from\" source")),
     RelationshipObj("SPDXRef-a.b", "NOASSERTION", "DEPENDS_ON", Some(""))}

CreationInfo ==
    [name |-> Some("example"),
     spdx_version |-> Some("SPDX-2.3"),
     document_namespace |-> Some("https://example.org/ns"),
     created |-> Some("2025-11-27 15:17:19"),
     creators |-> Some(<<"Tool: t", "Person: \"A\"">>),
     data_license |-> Some("CC0-1.0")]

DocumentObj(packages, files, snippets, relationships) ==
    [creation_info |-> CreationInfo,
     packages |-> packages,
     files |-> files,
     snippets |-> snippets,
     relationships |-> relationships]

MaxPackagesValues == {None} \cup {Some(n) : n \in -1..MaxCap}

-----------------------------------------------------------------------------
(* generate_mermaid_diagram applied to one document *)

InitDiagram ==
    /\ pc = "generate"
    /\ \E np \in 0..MaxItems, nf \in 0..1, ns \in 0..1, nr \in 0..MaxItems :
          /\ np + nf + ns + nr <= MaxItems
          /\ \E ps \in [1..np -> PackageChoices], fl \in [1..nf -> FileChoices],
                sn \in [1..ns -> SnippetChoices], rs \in [1..nr -> RelationshipChoices] :
                doc = Some(DocumentObj(ps, fl, sn, rs))
    /\ \E c \in BOOLEAN, x \in BOOLEAN, m \in MaxPackagesValues :
          args = Some([compact |-> c, max_packages |-> m, exclude_external_refs |-> x])
    /\ spdx_id = "" /\ node_id = None
    /\ text_in = "" /\ escaped = None /\ element = None /\ node_label = None
    /\ fs = <<>> /\ processed_file = None /\ tmp_created = {}
    /\ elements = <<>> /\ lines = <<>> /\ mermaid = None
    /\ stdout = <<>> /\ stderr = <<>> /\ exit_code = None

\* One call of generate_mermaid_diagram; elements and lines keep its locals
\* as they are when it returns.
Generate ==
    /\ pc = "generate"
    /\ ~ExtractRaises(doc[1])
    /\ elements' = LimitPackages(extract_elements_from_document(doc[1]),
                                 args[1].max_packages)
    /\ lines' = DiagramLines(elements', doc[1].relationships, args[1].compact,
                             args[1].exclude_external_refs)
    /\ mermaid' = Some(Join("\n", lines'))
    /\ pc' = "generated"
    /\ UNCHANGED <<text_in, escaped, element, node_label>>
    /\ UNCHANGED <<spdx_id, node_id, args, fs, processed_file, tmp_created, doc,
                   stdout, stderr, exit_code>>

NextDiagram == Generate

SpecDiagram == InitDiagram /\ [][NextDiagram]_vars

-----------------------------------------------------------------------------
(* Reading the emitted statements *)

EndsWith(s, p) == Len(p) <= Len(s) /\ SubSeq(s, Len(s) - Len(p) + 1, Len(s)) = p

\* The statements of the diagram: each line of `lines` with the append that
\* wrote it and the identifier it was given.  The text alone does not tell
\* them apart (an identifier may hold any character, `["` and ` -->|"`
\* included, and may be `style`), so a statement is read by its site.
Stmts ==
    LET sites == DiagramSites(elements, doc[1].relationships) IN
    [k \in 1..Len(lines) |->
        IF k <= Len(sites)
        THEN [by |-> sites[k].by, id |-> sites[k].id, line |-> lines[k]]
        ELSE [by |-> "", id |-> "", line |-> lines[k]]]

IsEdgeStmt(stmt) == stmt.by = "edge"

IsStyleStmt(stmt) == stmt.by = "style"

IsNodeStmt(stmt) == stmt.by = "node"

\* the identifier formatted into a statement and what follows it
StmtWord(stmt) == stmt.id

StmtRest(stmt) ==
    LET head == IF stmt.by = "style" THEN "    style "
                ELSE IF stmt.by \in {"node", "edge"} THEN "    " ELSE ""
    IN  Suffix(stmt.line, Len(head) + Len(stmt.id))

\* the node identifier of a node statement
NodeStmtId(stmt) == StmtWord(stmt)

LinesOf(stmts) == [i \in 1..Len(stmts) |-> stmts[i].line]

ElementNodeStmts == SelectSeq(Stmts, IsNodeStmt)

ElementStyleStmts == SelectSeq(Stmts, IsStyleStmt)

EdgeStmts == LinesOf(SelectSeq(Stmts, IsEdgeStmt))

PackageItems(elems) == SelectSeq(elems, LAMBDA item : item[2].type = "Package")

OtherItems(elems) == SelectSeq(elems, LAMBDA item : item[2].type # "Package")

Min(a, b) == IF a <= b THEN a ELSE b

\* e is c with every double quote replaced by a single quote, nothing else
QuotesReplaced(e, c) ==
    /\ Len(e) = Len(c)
    /\ \A k \in 1..Len(c) :
          Char(e, k) = IF Char(c, k) = "\"" THEN "'" ELSE Char(c, k)

-----------------------------------------------------------------------------
(* The diagram emitter's claims *)

\* C2: node identifiers are an injective image of element ids: no two node
\* statements of one diagram carry the same node identifier.
NodeIdsInjective ==
    pc = "generated" =>
        \A i, j \in 1..Len(ElementNodeStmts) :
            i # j => NodeStmtId(ElementNodeStmts[i]) # NodeStmtId(ElementNodeStmts[j])

\* C5: every relationship produces exactly one edge statement, in the
\* relationships' source order, whether or not its endpoints are among the
\* emitted nodes and whatever the package cap.
OneEdgePerRelationship ==
    pc = "generated" =>
        LET rs == doc[1].relationships
            edges == EdgeStmts
        IN
        /\ Len(edges) = Len(rs)
        /\ \A i \in 1..Len(rs) :
              /\ StartsWith(edges[i],
                            "    " \o sanitize_node_id(rs[i].spdx_element_id) \o " -->|\""
                            \o rs[i].relationship_type.name)
              /\ EndsWith(edges[i],
                          "\"| " \o sanitize_node_id(rs[i].related_spdx_element_id))

\* A cap of 0 has dropped the package both relationships refer to.
EdgesToDroppedPackage ==
    /\ pc = "generated"
    /\ args[1].max_packages = Some(0)
    /\ Len(doc[1].packages) = 1 /\ doc[1].packages[1].spdx_id = "SPDXRef-a-b"
    /\ Len(doc[1].relationships) = 2
    /\ doc[1].relationships[1].related_spdx_element_id = "SPDXRef-a-b"
    /\ doc[1].relationships[2].spdx_element_id = "SPDXRef-a-b"
    /\ "SPDXRef-a-b" \notin DictKeys(elements)
    /\ Len(EdgeStmts) = 2

\* C6: the edge of a relationship (s, t, k, c) goes from the sanitized s to
\* the sanitized t, never reversed; its label is the short name of k, followed
\* when c is present and non-empty by a line break and c with every double
\* quote replaced.
EdgeKeepsDirectionAndContent ==
    pc = "generated" =>
        LET rs == doc[1].relationships
            edges == EdgeStmts
            from(i) == "    " \o sanitize_node_id(rs[i].spdx_element_id) \o " -->|\""
            to(i) == "\"| " \o sanitize_node_id(rs[i].related_spdx_element_id)
            label(i) == SubSeq(edges[i], Len(from(i)) + 1,
                               Len(edges[i]) - Len(to(i)))
            kind(i) == rs[i].relationship_type.name
        IN  /\ Len(edges) = Len(rs)
            /\ \A i \in 1..Len(rs) :
                  /\ StartsWith(edges[i], from(i))
                  /\ EndsWith(edges[i], to(i))
                  /\ StartsWith(label(i), kind(i))
                  /\ IF rs[i].comment # None /\ rs[i].comment[1] # ""
                     THEN /\ StartsWith(label(i), kind(i) \o "<br/>")
                          /\ QuotesReplaced(Suffix(label(i), Len(kind(i)) + 5),
                                            rs[i].comment[1])
                     ELSE rs[i].comment = None => label(i) = kind(i)

\* A GENERATED_FROM relationship with a quoted comment has been emitted.
GeneratedFromEdgeEmitted ==
    /\ pc = "generated"
    /\ Len(doc[1].relationships) >= 1
    /\ doc[1].relationships[1].relationship_type.name = "GENERATED_FROM"
    /\ Contains(doc[1].relationships[1].comment[1], "\"")
    /\ EdgeStmts[1] = "    a_b -->|\"GENERATED_FROM<br/>built 'from' source\"| lib"

\* C7: a cap N >= 0 retains every non-package element and exactly
\* min(N, total) package nodes, the first min(N, total) packages of the
\* extracted mapping in order; no cap, or N >= total, retains every package.
CapKeepsFirstPackages ==
    pc = "generated" =>
        LET all == extract_elements_from_document(doc[1])
            total == Len(PackageItems(all))
            cap == args[1].max_packages
            kept == IF cap = None THEN total ELSE Min(cap[1], total)
            nodes == ElementNodeStmts
        IN  (cap = None \/ cap[1] >= 0) =>
            /\ OtherItems(elements) = OtherItems(all)
            /\ Len(PackageItems(elements)) = kept
            /\ PackageItems(elements) = SubSeq(PackageItems(all), 1, kept)
            /\ Cardinality({i \in 1..Len(nodes) :
                               StartsWith(StmtRest(nodes[i]), "[\"[Package")}) = kept
            /\ Len(nodes) = Len(OtherItems(all)) + kept

\* A cap of 1 has dropped the second of two packages and kept the file.
CapDroppedSecondPackage ==
    /\ pc = "generated"
    /\ args[1].max_packages = Some(1)
    /\ Len(PackageItems(extract_elements_from_document(doc[1]))) = 2
    /\ Len(doc[1].files) = 1
    /\ Len(PackageItems(elements)) = 1
    /\ PackageItems(elements)[1][1] = doc[1].packages[1].spdx_id
    /\ Len(OtherItems(elements)) = 2

\* C8: each id of the (capped) mapping yields exactly one node statement,
\* immediately followed by one style statement for the same node identifier,
\* and there is no other node statement but the legend's.
OneNodePerElement ==
    pc = "generated" =>
        LET stmts == Stmts IN
        /\ Len(ElementNodeStmts) = Len(elements)
        /\ Len(ElementStyleStmts) = Len(elements)
        /\ \A i \in 1..Len(elements) :
              LET nid == sanitize_node_id(elements[i][1]) IN
              /\ 2 * i + 1 <= Len(lines)
              /\ IsNodeStmt(stmts[2 * i])
              /\ StartsWith(lines[2 * i], "    " \o nid \o "[\"")
              /\ EndsWith(lines[2 * i], "\"]")
              /\ IsStyleStmt(stmts[2 * i + 1])
              /\ StartsWith(lines[2 * i + 1], "    style " \o nid \o " fill:")

\* Two elements whose ids sanitize to the same identifier were both emitted.
CollidingElementsEmitted ==
    /\ pc = "generated"
    /\ Len(elements) = 4
    /\ \E i, j \in 1..Len(elements) :
          /\ i # j
          /\ sanitize_node_id(elements[i][1]) = sanitize_node_id(elements[j][1])
    /\ Len(ElementNodeStmts) = 4

\* C9: the diagram has a fixed layout: 'graph LR', then the node/style
\* pairs, one of them the node DOCUMENT, then the edge statements, then a
\* blank line, the legend comment, the legend node and, last, the legend's
\* dashed-border style; the legend block occurs once.
LayoutOfStatements ==
    LET n == Len(ElementNodeStmts)
        e == Len(EdgeStmts)
        stmts == Stmts
    IN  /\ Len(lines) = 1 + 2 * n + e + 4
        /\ lines[1] = "graph LR"
        /\ \A i \in 1..n : IsNodeStmt(stmts[2 * i]) /\ IsStyleStmt(stmts[2 * i + 1])
        /\ \A i \in 1..e : IsEdgeStmt(stmts[1 + 2 * n + i])
        /\ SubSeq(lines, Len(lines) - 3, Len(lines)) = LegendLines
        /\ Cardinality({i \in 1..Len(lines) : StartsWith(lines[i], "    legend[")}) = 1
        /\ Cardinality({i \in 1..Len(lines) : lines[i] = "    %% Legend"}) = 1
        /\ StartsWith(mermaid[1], "graph LR\n")
        /\ EndsWith(mermaid[1], "\n" \o LegendLines[4])
        /\ StartsWith(LegendLines[4], "    style legend ")
        /\ Contains(LegendLines[4], "stroke-dasharray")

DocumentNodePresent ==
    \E i \in 1..Len(ElementNodeStmts) : NodeStmtId(ElementNodeStmts[i]) = "DOCUMENT"

DiagramFixedLayout ==
    pc = "generated" => LayoutOfStatements /\ DocumentNodePresent

\* The layout alone, which the emitter keeps for every document.
DiagramLayoutWithoutDocumentNode ==
    pc = "generated" => LayoutOfStatements

\* C10: the colour of a node is a function of its element type and, for a
\* package, of its purpose; the flags do not enter.
ExpectedFill(element_data) ==
    IF element_data.type = "Document" THEN "fill:#e1f5ff,stroke:#01579b"
    ELSE IF element_data.type = "File" THEN "fill:#e8f5e9,stroke:#1b5e20"
    ELSE IF element_data.type = "Snippet" THEN "fill:#fff3e0,stroke:#e65100"
    ELSE IF /\ element_data.primaryPackagePurpose # None
            /\ Contains(element_data.primaryPackagePurpose[1], "SOURCE")
         THEN "fill:#fff3e0,stroke:#e65100"
         ELSE "fill:#f3e5f5,stroke:#4a148c"

ColourByTypeAndPurpose ==
    pc = "generated" =>
        LET styles == LinesOf(ElementStyleStmts) IN
        /\ Len(styles) = Len(elements)
        /\ \A i \in 1..Len(elements) :
              StartsWith(styles[i],
                         "    style " \o sanitize_node_id(elements[i][1]) \o " "
                         \o ExpectedFill(elements[i][2]) \o ",stroke-width:")

\* A compact, capped, reference-free run coloured a SOURCE package, a
\* package with another purpose and the document.
ColouredUnderAllFlags ==
    /\ pc = "generated"
    /\ args[1].compact /\ args[1].exclude_external_refs
    /\ args[1].max_packages = Some(2)
    /\ Len(doc[1].packages) = 3
    /\ \E i, j \in 1..Len(elements) :
          /\ elements[i][2].type = "Package" /\ elements[j][2].type = "Package"
          /\ elements[i][2].primaryPackagePurpose = Some("PackagePurpose.SOURCE")
          /\ elements[j][2].primaryPackagePurpose = Some("PackagePurpose.LIBRARY")
    /\ \E k \in 1..Len(lines) : Contains(lines[k], "fill:#fff3e0,stroke:#e65100")
    /\ \E k \in 1..Len(lines) : Contains(lines[k], "fill:#f3e5f5,stroke:#4a148c")
    /\ \E k \in 1..Len(lines) : Contains(lines[k], "fill:#e1f5ff,stroke:#01579b")

-----------------------------------------------------------------------------
(* main(): one run of the command-line tool *)

\* The file names of a run: inputs with a JSON suffix in either case and
\* with another suffix, the output file, and the name NamedTemporaryFile
\* picks, which is new and so differs from every other name; and a file
\* named .json in a directory, whose name has no suffix.
ShortInputPaths == {"in.spdx.json", "in.JSON", "in.spdx", "d/.json"}

OutputPath == "out.md"

TmpPath == "spdx_preprocessed_0.json"

\* Input texts: a timestamp without Z, the same with Z, both, and none; a
\* timestamp whose closing quote is followed by Z, two timestamps that
\* share a quote, and a timestamp whose year is written in Arabic-Indic
\* digits (U+0662 U+0660 U+0662 U+0665).
InputContents ==
    {CodePoints("{\"created\": \"2025-11-27T15:17:19\"}"),
     CodePoints("{\"created\": \"2025-11-27T15:17:19Z\"}"),
     CodePoints("{\"a\": \"2025-11-27T15:17:19Z\", \"b\": \"2024-01-02T03:04:05\"}"),
     CodePoints("SPDXVersion: SPDX-2.3"),
     CodePoints("{\"created\": \"2025-11-27T15:17:19\"Z}"),
     CodePoints("\"2025-11-27T15:17:19\"2024-01-02T03:04:05\""),
     CodePoints("{\"created\": \"") \o <<1634, 1632, 1634, 1637>>
         \o CodePoints("-11-27T15:17:19\"}")}

\* What the output file holds before the run, when it exists.
OldOutput == CodePoints("graph LR")

\* the text of a file that write_text has written the str o to; None for None
TextOf(o) == IF o = None THEN None ELSE Some(CodePoints(o[1]))

\* What the external parser may return.
ParsedDocuments ==
    {DocumentObj(<<>>, <<>>, <<>>, <<>>),
     DocumentObj(<<PackageObj("SPDXRef-a-b", Purpose("SOURCE"), "ab"),
                   PackageObj("SPDXRef-lib", Purpose("LIBRARY"), "")>>,
                 <<FileObj("SPDXRef-main.c")>>, <<>>,
                 <<RelationshipObj("SPDXRef-DOCUMENT", "SPDXRef-a-b", "DESCRIBES", None)>>)}

\* NAME_MAX: the longest file name the file system takes
NameMax == 255

Twice(s) == s \o s

\* a file name of NameMax + 1 characters, which no file can bear
LongName == Twice(Twice(Twice(Twice(Twice(Twice(Twice(Twice("x"))))))))

\* the input files a run may name
InputPaths == ShortInputPaths \cup {LongName}

Paths == InputPaths \cup {OutputPath, TmpPath}

\* some component of the path is longer than NameMax
NameTooLong(path) ==
    \E i \in 1..(Len(path) - NameMax) : \A k \in i..(i + NameMax) : Char(path, k) # "/"

\* the outcome of a call: the value returned or the exception raised
Returned(v) == [returned |-> v]

OSError == [raised |-> "OSError"]

Raises(r) == "raised" \in DOMAIN r

\* Path.exists() at line 537: stat() raises OSError for a name the file
\* system refuses (ENAMETOOLONG) and when fault is "stat" (a directory of the
\* path that may not be searched, EACCES); only a missing file or directory
\* makes it answer False.
Exists(files, path, fault) ==
    IF fault = "stat" \/ NameTooLong(path) THEN OSError
    ELSE Returned(files[path] # None)

\* how many code points of a text a failing write has left in the file
MaxWritten == 2

\* a is a leading part of b
IsPrefix(a, b) == Len(a) <= Len(b) /\ a = SubSeq(b, 1, Len(a))

\* A top-level handler that reports the fault and exits with code 0.
Fail_exits_zero(fault) ==
    /\ stderr' = stderr \o <<"Error processing SPDX file: " \o fault, "Traceback">>
    /\ exit_code' = Some(0)
    /\ pc' = "exited"

\* except Exception at lines 570-575: the message, the trace, sys.exit(1)
Fail(fault) ==
    /\ stderr' = stderr \o <<"Error processing SPDX file: " \o fault, "Traceback">>
    /\ exit_code' = Some(1)
    /\ pc' = "exited"

\* an exception no handler catches: the interpreter prints the trace and
\* exits with code 1
Uncaught ==
    /\ stderr' = Append(stderr, "Traceback")
    /\ exit_code' = Some(1)
    /\ pc' = "exited"

\* print(text) returns and the run exits by `code`: the stream has taken
\* the text, and the interpreter's last flush of standard output passes it
\* on, or fails, which the interpreter reports, making the exit code 120.
ExitFlushing(text, code) ==
    /\ stdout' = Append(stdout, text)
    /\ \/ /\ exit_code' = Some(code)
          /\ UNCHANGED stderr
       \/ /\ exit_code' = Some(120)
          /\ stderr' = Append(stderr, "Exception ignored")

\* print(text) raises inside the try of main (the stream passes the text on
\* at once, as for a terminal or a text that overflows its buffer, and the
\* write is refused): the handler reports the fault; the stream has taken
\* none or a leading part of the text, and when it still holds text the
\* interpreter's last flush fails once more, making the exit code 120.
PrintRaises(text) ==
    /\ \/ stdout' = stdout
       \/ \E n \in 1..MaxWritten : n < Len(text) /\ stdout' = Append(stdout, Prefix(text, n))
    /\ pc' = "exited"
    /\ \/ /\ stderr' = stderr \o <<"Error processing SPDX file: print", "Traceback">>
          /\ exit_code' = Some(1)
       \/ /\ stderr' = stderr \o <<"Error processing SPDX file: print", "Traceback",
                                   "Exception ignored">>
          /\ exit_code' = Some(120)

\* what parse_args prints on standard output when asked for help
HelpText == "usage"

\* what parse_args prints on standard error when it refuses the command line
UsageError == "usage: error"

\* A run starts with its three standard streams open, and standard error
\* takes all that is written to it.
\* The command line of a run: one that parse_args accepts ("run"), one that
\* asks for help ("help") and one it refuses ("invalid").  The other fields
\* of args are what the command line names; parse_args returns them as the
\* namespace when it accepts the command line.
InitMain ==
    /\ pc = "args"
    /\ \E f \in InputPaths, o \in {None, Some(OutputPath)} \cup {Some(p) : p \in InputPaths},
          c \in BOOLEAN, x \in BOOLEAN, m \in {None, Some(1)},
          kind \in {"run", "help", "invalid"} :
          /\ o \in {None, Some(OutputPath), Some(f)}
          /\ kind # "run" => ~c /\ ~x /\ m = None
          /\ args = Some([argv |-> kind, spdx_file |-> f, output |-> o, compact |-> c,
                          max_packages |-> m, exclude_external_refs |-> x])
          /\ \E content \in {None} \cup {Some(t) : t \in InputContents},
                old \in {None, Some(OldOutput)} :
                /\ NameTooLong(f) => content = None
                /\ fs = [p \in Paths |-> IF p = f THEN content
                                         ELSE IF o = Some(p) THEN old ELSE None]
    /\ spdx_id = "" /\ node_id = None
    /\ text_in = "" /\ escaped = None /\ element = None /\ node_label = None
    /\ processed_file = None /\ tmp_created = {} /\ doc = None
    /\ elements = <<>> /\ lines = <<>> /\ mermaid = None
    /\ stdout = <<>> /\ stderr = <<>> /\ exit_code = None

\* line 534: parse_args returns the namespace, or prints the help and exits
\* with code 0 (-h), or prints the usage and the error and exits with code
\* 2.  argparse swallows an OSError of writing the help: a buffered stream
\* still holds the text, which fails the interpreter's last flush (exit code
\* 120); an unbuffered stream holds nothing, has passed on none or a leading
\* part of the help, and the run exits with code 0 and no report.
ParseArgs ==
    /\ pc = "args"
    /\ IF args[1].argv = "help"
       THEN /\ pc' = "exited"
            /\ \/ ExitFlushing(HelpText, 0)
               \/ /\ stdout' = stdout
                  /\ exit_code' = Some(120)
                  /\ stderr' = Append(stderr, "Exception ignored")
               \/ /\ \/ stdout' = stdout
                     \/ \E n \in 1..MaxWritten :
                           n < Len(HelpText) /\ stdout' = Append(stdout, Prefix(HelpText, n))
                  /\ exit_code' = Some(0)
                  /\ UNCHANGED stderr
       ELSE IF args[1].argv = "invalid"
       THEN /\ stderr' = Append(stderr, UsageError)
            /\ exit_code' = Some(2)
            /\ pc' = "exited"
            /\ UNCHANGED stdout
       ELSE /\ pc' = "start"
            /\ UNCHANGED <<stdout, stderr, exit_code>>
    /\ UNCHANGED <<text_in, escaped, element, node_label>>
    /\ UNCHANGED <<spdx_id, node_id, args, fs, processed_file, tmp_created, doc,
                   elements, lines, mermaid>>

\* An existence check that opens the output file for writing before it
\* reports the missing input.
CheckExists_truncates_output ==
    /\ pc = "start"
    /\ \E fault \in {"none", "stat"} :
          LET found == Exists(fs, args[1].spdx_file, fault) IN
          IF Raises(found)
          THEN /\ Uncaught
               /\ UNCHANGED fs
          ELSE IF found.returned
          THEN /\ pc' = "preprocess"
               /\ UNCHANGED <<fs, stderr, exit_code>>
          ELSE /\ fs' = IF args[1].output = None THEN fs
                        ELSE [fs EXCEPT ![args[1].output[1]] = Some(<<>>)]
               /\ stderr' = Append(stderr, "Error: File not found: " \o args[1].spdx_file)
               /\ exit_code' = Some(1)
               /\ pc' = "exited"
    /\ UNCHANGED <<text_in, escaped, element, node_label>>
    /\ UNCHANGED <<spdx_id, node_id, args, processed_file, tmp_created, doc,
                   elements, lines, mermaid, stdout>>

\* lines 536-539; the test stands before the try, so an exception of it is
\* caught by no handler
CheckExists ==
    /\ pc = "start"
    /\ \E fault \in {"none", "stat"} :
          LET found == Exists(fs, args[1].spdx_file, fault) IN
          IF Raises(found)
          THEN Uncaught
          ELSE IF found.returned
          THEN /\ pc' = "preprocess"
               /\ UNCHANGED <<stderr, exit_code>>
          ELSE /\ stderr' = Append(stderr, "Error: File not found: " \o args[1].spdx_file)
               /\ exit_code' = Some(1)
               /\ pc' = "exited"
    /\ UNCHANGED <<text_in, escaped, element, node_label>>
    /\ UNCHANGED <<spdx_id, node_id, args, fs, processed_file, tmp_created, doc,
                   elements, lines, mermaid, stdout>>

\* A patch step that writes the fixed text over the file it read.
preprocess_spdx_file_in_place(file_path, files, fault, written) ==
    IF ~LowerIsJson(PathSuffix(file_path)) THEN <<file_path, files, {}, None>>
    ELSE IF fault \in {"read", "match"} THEN <<file_path, files, {}, Some(fault)>>
    ELSE LET content == files[file_path][1] IN
         IF ~NeedsFix(content) THEN <<file_path, files, {}, None>>
         ELSE IF fault \in {"create", "write"} THEN <<file_path, files, {}, Some(fault)>>
         ELSE <<file_path, [files EXCEPT ![file_path] = Some(FixTimestamps(content))],
                {}, None>>

\* A patch step that, when tmp.write raises, returns the temporary file it
\* had created.
preprocess_spdx_file_returns_temp_on_fault(file_path, files, fault, written) ==
    IF ~LowerIsJson(PathSuffix(file_path)) THEN <<file_path, files, {}, None>>
    ELSE IF fault \in {"read", "match"} THEN <<file_path, files, {}, Some(fault)>>
    ELSE LET content == files[file_path][1] IN
         IF ~NeedsFix(content) THEN <<file_path, files, {}, None>>
         ELSE IF fault = "create" THEN <<file_path, files, {}, Some(fault)>>
         ELSE IF fault = "write"
              THEN <<TmpPath,
                     [files EXCEPT ![TmpPath] = Some(Prefix(FixTimestamps(content), written))],
                     {TmpPath}, Some(fault)>>
              ELSE <<TmpPath, [files EXCEPT ![TmpPath] = Some(FixTimestamps(content))],
                     {TmpPath}, None>>

\* What preprocess_spdx_file(file_path) returns and leaves behind when the
\* step named by fault raises ("none": no step does): <<path, fs, created,
\* warning>>.  A fault of read_text, of the pattern search or of creating
\* the temporary file leaves nothing behind; a fault of tmp.write, or of the
\* flush when the `with` block closes the file, leaves the file
\* NamedTemporaryFile created (delete=False) holding the first `written`
\* code points of the fixed text, none when written is 0.
preprocess_spdx_file(file_path, files, fault, written) ==
    IF ~LowerIsJson(PathSuffix(file_path)) THEN <<file_path, files, {}, None>>
    ELSE IF fault \in {"read", "match"} THEN <<file_path, files, {}, Some(fault)>>
    ELSE LET content == files[file_path][1] IN
         IF ~NeedsFix(content) THEN <<file_path, files, {}, None>>
         ELSE IF fault = "create" THEN <<file_path, files, {}, Some(fault)>>
         ELSE IF fault = "write"
              THEN <<file_path,
                     [files EXCEPT ![TmpPath] = Some(Prefix(FixTimestamps(content), written))],
                     {TmpPath}, Some(fault)>>
              ELSE <<TmpPath, [files EXCEPT ![TmpPath] = Some(FixTimestamps(content))],
                     {TmpPath}, None>>

\* line 543
Preprocess ==
    /\ pc = "preprocess"
    /\ \E fault \in {"none", "read", "match", "create", "write"}, written \in 0..MaxWritten :
          LET r == preprocess_spdx_file(args[1].spdx_file, fs, fault, written) IN
          /\ processed_file' = Some(r[1])
          /\ fs' = r[2]
          /\ tmp_created' = r[3]
          /\ stderr' = IF r[4] = None THEN stderr
                       ELSE Append(stderr, "Warning: Could not preprocess file: " \o r[4][1])
    /\ pc' = "parse"
    /\ UNCHANGED <<text_in, escaped, element, node_label>>
    /\ UNCHANGED <<spdx_id, node_id, args, doc, elements, lines, mermaid, stdout,
                   exit_code>>

\* line 546: the external parser returns a document or raises
Parse ==
    /\ pc = "parse"
    /\ \/ /\ \E d \in ParsedDocuments : doc' = Some(d)
          /\ pc' = "cleanup"
          /\ UNCHANGED <<stderr, exit_code>>
       \/ /\ Fail("parse")
          /\ UNCHANGED doc
    /\ UNCHANGED <<text_in, escaped, element, node_label>>
    /\ UNCHANGED <<spdx_id, node_id, args, fs, processed_file, tmp_created,
                   elements, lines, mermaid, stdout>>

\* lines 549-553: unlink may raise, which is swallowed and leaves the file
Cleanup ==
    /\ pc = "cleanup"
    /\ IF processed_file[1] # args[1].spdx_file
       THEN \/ fs' = [fs EXCEPT ![processed_file[1]] = None]
            \/ UNCHANGED fs
       ELSE UNCHANGED fs
    /\ pc' = "generate"
    /\ UNCHANGED <<text_in, escaped, element, node_label>>
    /\ UNCHANGED <<spdx_id, node_id, args, processed_file, tmp_created, doc,
                   elements, lines, mermaid, stdout, stderr, exit_code>>

\* lines 556-561 when generation raises
GenerateRaises ==
    /\ pc = "generate"
    /\ Fail("generate")
    /\ UNCHANGED <<text_in, escaped, element, node_label>>
    /\ UNCHANGED <<spdx_id, node_id, args, fs, processed_file, tmp_created, doc,
                   elements, lines, mermaid, stdout>>

\* lines 564-568.  write_text opens the file for writing, which creates or
\* empties it, writes the text and closes the file; it raises before the
\* file is open (the file is as it was) or after (the file holds none or a
\* leading part of the text).  Each print may raise, and what it has left
\* in the stream goes out, or fails to, when the interpreter exits.
Output ==
    /\ pc = "generated"
    /\ IF args[1].output # None
       THEN LET out == args[1].output[1]
                text == CodePoints(mermaid[1])
                notice == "Diagram written to " \o out
            IN  \/ /\ Fail("write")
                   /\ UNCHANGED <<fs, stdout>>
                \/ /\ \E n \in 0..MaxWritten :
                         /\ n < Len(text)
                         /\ fs' = [fs EXCEPT ![out] = Some(SubSeq(text, 1, n))]
                   /\ Fail("write")
                   /\ UNCHANGED stdout
                \/ /\ fs' = [fs EXCEPT ![out] = Some(text)]
                   /\ \/ ExitFlushing(notice, 0) /\ pc' = "exited"
                      \/ PrintRaises(notice)
       ELSE /\ \/ ExitFlushing(mermaid[1], 0) /\ pc' = "exited"
               \/ PrintRaises(mermaid[1])
            /\ UNCHANGED fs
    /\ UNCHANGED <<text_in, escaped, element, node_label>>
    /\ UNCHANGED <<spdx_id, node_id, args, processed_file, tmp_created, doc,
                   elements, lines, mermaid>>

NextMain ==
    \/ ParseArgs
    \/ CheckExists
    \/ Preprocess
    \/ Parse
    \/ Cleanup
    \/ Generate
    \/ GenerateRaises
    \/ Output

SpecMain == InitMain /\ [][NextMain]_vars

-----------------------------------------------------------------------------
(* The claims about main()'s files *)

\* C3: the temporary file created by preprocess_spdx_file is removed by the
\* time main() terminates, on every path: in every terminal state no
\* temporary file created by the run still exists.
TempFileRemovedAtExit ==
    pc = "exited" => \A t \in tmp_created : fs[t] = None

\* C4 as stated: no step of any run changes or deletes the input file.
InputFileNeverMutated ==
    [][fs'[args[1].spdx_file] = fs[args[1].spdx_file]]_vars

\* C4: the input file is never deleted, and its content changes in one case
\* only: the run was given the input path as its output path, and the final
\* write step opens it for writing; it then holds the diagram when the run
\* exits with code 0, and none or a leading part of the diagram when the
\* write failed.  Parsing the command line, the existence test,
\* preprocessing, parsing and cleanup leave it as it was; cleanup unlinks
\* only a path that differs from the input path.
InputFileMutatedOnlyAsOutput ==
    [][LET input == args[1].spdx_file IN
       /\ fs[input] # None => fs'[input] # None
       /\ fs'[input] # fs[input] =>
             /\ pc = "generated" /\ pc' = "exited"
             /\ args[1].output = Some(input)
             /\ IsPrefix(fs'[input][1], TextOf(mermaid)[1])
             /\ exit_code' = Some(0) => fs'[input] = TextOf(mermaid)
             /\ fs'[input] # TextOf(mermaid) =>
                   /\ exit_code' = Some(1)
                   /\ stderr' = stderr \o <<"Error processing SPDX file: write", "Traceback">>
       /\ \A p \in Paths :
             (pc = "cleanup" /\ fs[p] # None /\ fs'[p] = None) => p # input]_vars

\* A run that needed the patch has parsed, removed its temporary file and
\* ended with the input file as it was.
PatchedRunLeftInputAlone ==
    /\ pc = "exited" /\ exit_code = Some(0)
    /\ processed_file = Some(TmpPath) /\ tmp_created = {TmpPath}
    /\ fs[TmpPath] = None
    /\ args[1].output = Some(OutputPath)
    /\ fs[args[1].spdx_file] = Some(CodePoints("{\"created\": \"2025-11-27T15:17:19\"}"))
    /\ fs[OutputPath] = TextOf(mermaid)

-----------------------------------------------------------------------------
(* format_node_label applied to one element dictionary *)

\* how far below and above a truncation limit the lengths of the values go
MaxOver == 1

\* the limits of the truncated fields (lines 145, 160, 169, 202, 209, 223,
\* 228, 240, 250)
TruncationLimits == {40, 50, 60}

\* a text of n characters with a double quote at every third position
RECURSIVE Text(_)
Text(n) == IF n <= 0 THEN "" ELSE Text(n - 1) \o (IF n % 3 = 0 THEN "\"" ELSE "a")

\* texts as long as a limit, and up to MaxOver shorter and longer
LongTexts == {Text(l + d) : l \in TruncationLimits, d \in (0 - MaxOver)..MaxOver}

\* the values of a key that holds an Optional[str]
TextValues ==
    {None, Some(""), Some("say \"hi\""), Some("two\nlines")}
    \cup {Some(t) : t \in LongTexts}

StringKeys ==
    {"name", "summary", "version", "licenseConcluded", "licenseComments",
     "downloadLocation", "supplier", "originator", "verificationCode",
     "copyrightText", "comment", "homepage", "created", "namespace",
     "dataLicense", "licenseDeclared", "packageFileName", "primaryPackagePurpose"}

\* creators: one name, or two joined by ", " (11 characters before the second)
CreatorsValues ==
    {None, Some(<<>>)}
    \cup {Some(<<t>>) : t \in LongTexts}
    \cup {Some(<<"Tool: \"t\"", Text(l + d - 11)>>) :
             l \in {50}, d \in (0 - MaxOver)..MaxOver}

ChecksumsValues ==
    {None, Some(<<>>),
     Some(<<[algorithm |-> "ChecksumAlgorithm.SHA1",
             checksumValue |-> "da39a3ee5e6b4b0d3255"]>>),
     Some(<<[algorithm |-> "SHA\"256", checksumValue |-> "ab\"cd"],
            [algorithm |-> "MD5"],
            [algorithm |-> "ChecksumAlgorithm.SHA1", checksumValue |-> "da39"]>>)}

ExternalRefsValues ==
    {None, Some(<<>>),
     Some(<<[referenceType |-> "cpe\"23\"Type", referenceLocator |-> "cpe:2.3:a",
             referenceCategory |-> "ExternalPackageRefCategory.SECURITY"],
            [referenceLocator |-> "pkg:nix/p@1.0"],
            [referenceType |-> "purl", referenceLocator |-> "pkg:nix/q@2.0",
             referenceCategory |-> ""]>>)}
    \cup {Some(<<[referenceType |-> "purl", referenceLocator |-> t,
                  referenceCategory |-> "ExternalPackageRefCategory.PACKAGE_MANAGER"]>>) :
             t \in LongTexts}

FilesAnalyzedValues == {None, Some(TRUE), Some(FALSE)}

\* a dictionary with the one key
OneKey(key, value) == [k \in {key} |-> value]

\* {**base, **over}
Merged(base, over) ==
    [k \in DOMAIN base \cup DOMAIN over |-> IF k \in DOMAIN over THEN over[k] ELSE base[k]]

\* A dictionary with no key, and one with a name and a purpose.
BaseDicts ==
    {<<>>, [name |-> Some("pkg"), primaryPackagePurpose |-> Some("PackagePurpose.SOURCE")]}

\* A dictionary that holds every key format_node_label reads.
FullDict ==
    [name |-> Some("pkg"),
     primaryPackagePurpose |-> Some("PackagePurpose.SOURCE"),
     summary |-> Some("a summary"),
     version |-> Some("1.0"),
     licenseConcluded |-> Some("MIT"),
     licenseComments |-> Some("a note"),
     downloadLocation |-> Some("https://d.example"),
     supplier |-> Some("Organization: s"),
     originator |-> Some("Person: o"),
     filesAnalyzed |-> Some(FALSE),
     verificationCode |-> Some("abc123"),
     checksums |-> Some(<<[algorithm |-> "SHA\"256", checksumValue |-> "ab\"cd"],
                          [algorithm |-> "MD5"],
                          [algorithm |-> "ChecksumAlgorithm.SHA1",
                           checksumValue |-> "da39a3ee5e6b4b0d3255"]>>),
     copyrightText |-> Some("(c) x"),
     comment |-> Some("a comment"),
     homepage |-> Some("https://h.example"),
     created |-> Some("2024-01-02T03:04:05Z"),
     creators |-> Some(<<"Tool: t", "Person: p">>),
     namespace |-> Some("https://ns.example"),
     dataLicense |-> Some("CC0-1.0"),
     licenseDeclared |-> Some("Apache-2.0"),
     packageFileName |-> Some("p.tgz"),
     externalRefs |-> Some(<<[referenceType |-> "cpe\"23\"Type",
                              referenceLocator |-> "cpe:2.3:a",
                              referenceCategory |-> "ExternalPackageRefCategory.SECURITY"],
                             [referenceLocator |-> "pkg:nix/p@1.0"],
                             [referenceType |-> "purl", referenceLocator |-> "pkg:nix/q@2.0",
                              referenceCategory |-> ""]>>)]

\* the dictionary d with only the keys of ks
Restrict(d, ks) == [k \in ks \cap DOMAIN d |-> d[k]]

\* Dictionaries with several keys at once: the full one, the full one with
\* one key missing or holding None, and the ones with one or two of its keys.
RichDicts ==
    {FullDict}
    \cup {Restrict(FullDict, DOMAIN FullDict \ {k}) : k \in DOMAIN FullDict}
    \cup {Merged(FullDict, OneKey(k, None)) : k \in DOMAIN FullDict}
    \cup {Restrict(FullDict, {k1, k2}) : k1, k2 \in DOMAIN FullDict}

\* The dictionaries format_node_label is given: a base and one key over it,
\* and the dictionaries with several keys.
ElementDicts ==
    RichDicts \cup
    {Merged(b, o) :
        b \in BaseDicts,
        o \in {OneKey(k, v) : k \in StringKeys, v \in TextValues}
              \cup {OneKey("creators", v) : v \in CreatorsValues}
              \cup {OneKey("checksums", v) : v \in ChecksumsValues}
              \cup {OneKey("externalRefs", v) : v \in ExternalRefsValues}
              \cup {OneKey("filesAnalyzed", v) : v \in FilesAnalyzedValues}}

ElementTypes == {"Document", "Package", "File", "Snippet"}

ElementIds == {"SPDXRef-a.b", "SPDXRef-\"q\""}

InitLabel ==
    /\ pc = "format"
    /\ \E id \in ElementIds, d \in ElementDicts, t \in ElementTypes :
          element = Some([element_id |-> id, element_data |-> d, element_type |-> t])
    /\ \E c \in BOOLEAN, x \in BOOLEAN :
          args = Some([compact |-> c, exclude_external_refs |-> x])
    /\ node_label = None /\ lines = <<>>
    /\ spdx_id = "" /\ node_id = None /\ text_in = "" /\ escaped = None
    /\ fs = <<>> /\ processed_file = None /\ tmp_created = {}
    /\ doc = None /\ elements = <<>> /\ mermaid = None
    /\ stdout = <<>> /\ stderr = <<>> /\ exit_code = None

\* One call of format_node_label; lines keeps its local list as it is when
\* it returns.
FormatLabel ==
    /\ pc = "format"
    /\ lines' = LabelLines(element[1].element_id, element[1].element_data,
                           element[1].element_type, args[1].compact,
                           args[1].exclude_external_refs)
    /\ node_label' = Some(format_node_label(element[1].element_id,
                                            element[1].element_data,
                                            element[1].element_type, args[1].compact,
                                            args[1].exclude_external_refs))
    /\ pc' = "labelled"
    /\ UNCHANGED <<spdx_id, node_id, text_in, escaped, element, args, fs,
                   processed_file, tmp_created, doc, elements, mermaid, stdout,
                   stderr, exit_code>>

NextLabel == FormatLabel

SpecLabel == InitLabel /\ [][NextLabel]_vars

\* C11: no raw double quote reaches a node label, whichever rendered value
\* held one in the element dictionary.
LabelHasNoQuote ==
    pc = "labelled" => ~Contains(node_label[1], "\"")

\* The truncated fields: the key, the text put before the value, the limit,
\* the element types that show the field, and whether compact mode hides it.
TruncatedFields ==
    {[key |-> "summary", prefix |-> "Summary: ", limit |-> 60,
      types |-> ElementTypes, optional |-> FALSE],
     [key |-> "licenseComments", prefix |-> "License Note: ", limit |-> 60,
      types |-> ElementTypes, optional |-> FALSE],
     [key |-> "downloadLocation", prefix |-> "Download: ", limit |-> 50,
      types |-> ElementTypes, optional |-> TRUE],
     [key |-> "copyrightText", prefix |-> "Copyright: ", limit |-> 40,
      types |-> ElementTypes, optional |-> TRUE],
     [key |-> "comment", prefix |-> "Comment: ", limit |-> 50,
      types |-> ElementTypes, optional |-> TRUE],
     [key |-> "namespace", prefix |-> "Namespace: ", limit |-> 50,
      types |-> {"Document"}, optional |-> TRUE],
     [key |-> "packageFileName", prefix |-> "Package File: ", limit |-> 50,
      types |-> {"Package"}, optional |-> TRUE]}

\* r is the value v as the claim renders it under the limit
RenderedUnderLimit(r, v, limit) ==
    IF Len(v) > limit
    THEN /\ Len(r) = limit
         /\ EndsWith(r, "...")
         /\ QuotesReplaced(Prefix(r, limit - 3), Prefix(v, limit - 3))
    ELSE QuotesReplaced(r, v)

\* exactly one line starts with the prefix, and what follows the prefix is v
\* rendered under the limit
OneLineRendered(prefix, v, limit) ==
    /\ Cardinality({i \in 1..Len(lines) : StartsWith(lines[i], prefix)}) = 1
    /\ \A i \in 1..Len(lines) :
          StartsWith(lines[i], prefix) =>
              RenderedUnderLimit(Suffix(lines[i], Len(prefix)), v, limit)

\* C12: truncation is uniform: a truncated field with limit L whose value v
\* is longer than L is rendered with length exactly L, ending in '...' after
\* the first L-3 characters of v (quotes replaced); a value of length at most
\* L, and so one of length exactly L, is rendered whole (quotes replaced).
TruncationUniform ==
    pc = "labelled" =>
        LET data == element[1].element_data
            type == element[1].element_type
            compact == args[1].compact
        IN  /\ \A f \in TruncatedFields :
                  (/\ HasTruthy(data, f.key)
                   /\ type \in f.types
                   /\ f.optional => ~compact)
                  => OneLineRendered(f.prefix, data[f.key][1], f.limit)
            /\ (HasTruthy(data, "creators") /\ type = "Document" /\ ~compact)
                  => OneLineRendered("Creators: ", Join(", ", data["creators"][1]), 50)
            /\ (/\ HasTruthy(data, "externalRefs")
                /\ Len(data["externalRefs"][1]) = 1
                /\ type = "Package" /\ ~args[1].exclude_external_refs)
                  => OneLineRendered(data["externalRefs"][1][1].referenceType \o ": ",
                                     data["externalRefs"][1][1].referenceLocator, 40)

\* A copyright text one character over its limit of 40 was cut to 37
\* characters and three dots.
CopyrightTruncated ==
    /\ pc = "labelled"
    /\ ~args[1].compact
    /\ HasTruthy(element[1].element_data, "copyrightText")
    /\ Len(element[1].element_data["copyrightText"][1]) = 41
    /\ \E i \in 1..Len(lines) :
          /\ lines[i] = "Copyright: " \o escape_quotes(Text(37)) \o "..."
          /\ Len(lines[i]) = 11 + 40

-----------------------------------------------------------------------------
(* The claims about the pre-parse patch *)

\* s starts with a quoted timestamp: a quote, YYYY-MM-DDTHH:MM:SS, a quote
QuotedTimestampAtStart(s) ==
    /\ Len(s) >= 21
    /\ s[1] = ord("\"") /\ s[21] = ord("\"")
    /\ IsTimestamp(SubSeq(s, 2, 20))

\* the text contains a quoted timestamp with no Z
HasUnzonedTimestamp(content) ==
    \E i \in 0..(Len(content) - 21) : QuotedTimestampAtStart(Drop(content, i))

\* the text with Z put before the closing quote of every quoted timestamp
\* and nothing else changed
RECURSIVE ZAppended(_)
ZAppended(content) ==
    IF Len(content) < 21 THEN content
    ELSE IF QuotedTimestampAtStart(content)
         THEN SubSeq(content, 1, 20) \o CodePoints("Z") \o ZAppended(Drop(content, 20))
         ELSE SubSeq(content, 1, 1) \o ZAppended(Drop(content, 1))

\* the state preprocess_spdx_file leaves when no step of it raised
PatchedWhenNeeded ==
    LET input == args[1].spdx_file
        content == fs[input][1]
    IN  IF LowerIsJson(PathSuffix(input)) /\ HasUnzonedTimestamp(content)
        THEN /\ processed_file = Some(TmpPath)
             /\ tmp_created = {TmpPath}
             /\ fs[TmpPath] = Some(ZAppended(content))
             /\ ~NeedsFix(fs[TmpPath][1])
        ELSE /\ processed_file = Some(input)
             /\ tmp_created = {}
             /\ fs[TmpPath] = None

\* C13: the timestamp patch applies exactly when needed: a .json input (in
\* either case) holding a quoted timestamp without Z comes back as a new
\* temporary file whose text has Z appended inside the quotes of every such
\* timestamp and no further match; every other input comes back as the
\* original path with no temporary file.
PatchAppliedExactlyWhenNeeded ==
    (pc = "parse" /\ stderr = <<>>) => PatchedWhenNeeded

\* every quoted timestamp of the text stands alone: its closing quote is
\* followed neither by Z nor by a timestamp that would share the quote
TimestampsStandAlone(content) ==
    \A i \in 0..(Len(content) - 21) :
        QuotedTimestampAtStart(Drop(content, i)) =>
            /\ ~(Len(content) >= i + 22 /\ content[i + 22] = ord("Z"))
            /\ ~QuotedTimestampAtStart(Drop(content, i + 20))

\* The patch on texts whose quoted timestamps stand alone, as those of a
\* JSON document do.
PatchAppliedToSeparateTimestamps ==
    (pc = "parse" /\ stderr = <<>> /\ TimestampsStandAlone(fs[args[1].spdx_file][1]))
        => PatchedWhenNeeded

-----------------------------------------------------------------------------
(* The claims about main()'s faults and exits *)

\* the run has printed the patch step's warning
Warned ==
    \E i \in 1..Len(stderr) : StartsWith(stderr[i], "Warning: Could not preprocess file: ")

\* the run has printed the top-level handler's message
FaultReported ==
    \E i \in 1..Len(stderr) : StartsWith(stderr[i], "Error processing SPDX file: ")

\* the interpreter has reported that its last flush of standard output failed
FlushFaultReported ==
    \E i \in 1..Len(stderr) : stderr[i] = "Exception ignored"

\* C14: a fault in the pre-parse patch step is not fatal: it is swallowed
\* with a warning, the original path is returned, the input is as it was
\* (whatever the fault left in the temporary file), the run goes on to
\* parsing, and a run that exits with a non-zero code after the warning has
\* met another fault, which it reported.
PatchFaultNonFatal ==
    /\ [](Warned =>
            /\ processed_file = Some(args[1].spdx_file)
            /\ exit_code \notin {None, Some(0)} => FaultReported \/ FlushFaultReported)
    /\ [][pc = "preprocess" =>
            /\ pc' = "parse"
            /\ exit_code' = None
            /\ fs'[args[1].spdx_file] = fs[args[1].spdx_file]
            /\ Len(stderr') > Len(stderr) =>
                  /\ Warned'
                  /\ processed_file' = Some(args[1].spdx_file)]_vars

\* A run whose patch step failed part of the way through writing the
\* temporary file has parsed the original input and ended with exit code 0.
PatchFaultRunSucceeded ==
    /\ pc = "exited" /\ exit_code = Some(0)
    /\ stderr = <<"Warning: Could not preprocess file: write">>
    /\ processed_file = Some(args[1].spdx_file)
    /\ tmp_created = {TmpPath}
    /\ fs[TmpPath] # None /\ fs[TmpPath][1] # <<>>
    /\ fs[TmpPath][1] # FixTimestamps(fs[args[1].spdx_file][1])
    /\ doc # None /\ mermaid # None

Rank(p) ==
    CASE p = "args" -> 0
      [] p = "start" -> 1
      [] p = "preprocess" -> 2
      [] p = "parse" -> 3
      [] p = "cleanup" -> 4
      [] p = "generate" -> 5
      [] p = "generated" -> 6
      [] p = "exited" -> 7

\* the diagram has gone to exactly one destination
EmittedOnce ==
    LET text == TextOf(mermaid) IN
    IF args[1].output = None
    THEN /\ stdout = <<mermaid[1]>>
         /\ \A p \in Paths : fs[p] # text
    ELSE /\ fs[args[1].output[1]] = text
         /\ stdout = <<"Diagram written to " \o args[1].output[1]>>
         /\ \A p \in Paths \ {args[1].output[1]} : fs[p] # text

\* A fault of parsing or generating ends the run in the top-level handler:
\* the message and the trace, exit code 1, no file touched, nothing on
\* standard output, no diagram.
FaultCaughtAtTopLevel ==
    [][(pc \in {"parse", "generate"} /\ pc' = "exited") =>
          /\ exit_code' = Some(1)
          /\ FaultReported'
          /\ Len(stderr') = Len(stderr) + 2
          /\ fs' = fs
          /\ stdout' = stdout /\ stdout' = <<>>
          /\ mermaid' = None]_vars

\* Every step moves the run forward, so none of preprocess, parse, generate
\* and write is taken twice; and only the last step touches the output file.
NoStepRetried ==
    [][/\ Rank(pc') > Rank(pc)
       /\ (pc # "generated" /\ args[1].output # None) =>
             fs'[args[1].output[1]] = fs[args[1].output[1]]]_vars

\* C16 as stated: a fault of parsing or generating is caught at the top
\* level, reported, and ends the run with exit code 1 and no diagram
\* emitted; a run exits with code 0 only when parsing and generation
\* succeeded and the diagram went to exactly one destination; and no step is
\* retried.
FaultsReportedNoRetry ==
    /\ FaultCaughtAtTopLevel
    /\ NoStepRetried
    /\ []((pc = "exited" /\ exit_code = Some(0)) =>
            /\ doc # None /\ mermaid # None
            /\ ~FaultReported
            /\ EmittedOnce)

\* C16: a fault of parsing or generating is caught at the top level,
\* reported, and ends the run with exit code 1 and no diagram emitted; a run
\* exits with code 0 only when it was asked for help, parsed nothing and
\* wrote to standard output the help or as much of it as the stream took,
\* or when parsing and generation succeeded and the diagram went to exactly
\* one destination; a run the top-level handler reported a fault of never
\* exits with code 0; and no step is retried.
FaultsReportedNoRetryHelpAside ==
    /\ FaultCaughtAtTopLevel
    /\ NoStepRetried
    /\ [](pc = "exited" =>
            /\ exit_code \in {Some(0), Some(1), Some(2), Some(120)}
            /\ FaultReported => exit_code \in {Some(1), Some(120)}
            /\ exit_code = Some(0) =>
                  \/ /\ args[1].argv = "help"
                     /\ doc = None /\ mermaid = None
                     /\ \A i \in 1..Len(stdout) : IsPrefix(stdout[i], HelpText)
                     /\ Len(stdout) <= 1 /\ stderr = <<>>
                     /\ \A p \in Paths : fs[p] = None \/ fs[p][1] \in InputContents \cup {OldOutput}
                  \/ /\ args[1].argv = "run"
                     /\ doc # None /\ mermaid # None
                     /\ ~FaultReported /\ ~FlushFaultReported
                     /\ EmittedOnce)

\* Generation raised in a run that was to write the diagram to an existing
\* output file: exit code 1, the fault reported, the file as it was.
GenerateFaultReported ==
    /\ pc = "exited" /\ exit_code = Some(1)
    /\ stderr = <<"Error processing SPDX file: generate", "Traceback">>
    /\ doc # None /\ mermaid = None
    /\ stdout = <<>>
    /\ args[1].output = Some(OutputPath)
    /\ fs[OutputPath] = Some(OldOutput)

-----------------------------------------------------------------------------
(* The claims about the extracted mapping and the order of the nodes *)

\* the type stored under an id of the mapping, None when the id is no key
TypeUnder(elems, id) ==
    IF id \in DictKeys(elems)
    THEN Some(elems[CHOOSE i \in 1..Len(elems) : elems[i][1] = id][2].type)
    ELSE None

\* C17: whatever the ids of the packages, files and snippets, the extracted
\* mapping holds the key 'SPDXRef-DOCUMENT' with an element of type
\* 'Document', and every package of the document under its id with type
\* 'Package'.
ExtractKeepsDocumentAndPackages ==
    pc = "generated" =>
        LET all == extract_elements_from_document(doc[1]) IN
        /\ TypeUnder(all, "SPDXRef-DOCUMENT") = Some("Document")
        /\ \A k \in 1..Len(doc[1].packages) :
              TypeUnder(all, doc[1].packages[k].spdx_id) = Some("Package")

-----------------------------------------------------------------------------
(* The claim about the head of a label *)

\* the value under a key, None when the key is absent
ValueOf(element_data, key) == IF Has(element_data, key) THEN element_data[key] ELSE None

\* l is a type header of the element type
IsTypeHeader(l, element_type) ==
    \/ l = "[" \o element_type \o "]"
    \/ StartsWith(l, "[" \o element_type \o " - ") /\ EndsWith(l, "]")

\* C18: the label is non-empty and is made of its lines, of which exactly
\* one is a type header, the first: '[Type - Purpose]' when a purpose is
\* present and non-empty, otherwise '[Type]'; the second line is 'Name: '
\* and the name when a name is present and non-empty, otherwise 'ID: ' and
\* the id as given, quotes replaced, not sanitized.  A line is an entry of
\* the list the label is joined from.
LabelHeaderAndName ==
    pc = "labelled" =>
        LET data == element[1].element_data
            type == element[1].element_type
            purpose == ValueOf(data, "primaryPackagePurpose")
            name == ValueOf(data, "name")
        IN  /\ node_label[1] # ""
            /\ Len(lines) >= 2
            /\ StartsWith(node_label[1], lines[1] \o "\n" \o lines[2])
            /\ Len(lines) = 2 => node_label[1] = lines[1] \o "\n" \o lines[2]
            /\ lines[1] = IF purpose # None /\ purpose[1] # ""
                          THEN "[" \o type \o " - " \o purpose[1] \o "]"
                          ELSE "[" \o type \o "]"
            /\ Cardinality({i \in 1..Len(lines) : IsTypeHeader(lines[i], type)}) = 1
            /\ IF name # None /\ name[1] # ""
               THEN /\ StartsWith(lines[2], "Name: ")
                    /\ QuotesReplaced(Suffix(lines[2], 6), name[1])
               ELSE /\ StartsWith(lines[2], "ID: ")
                    /\ QuotesReplaced(Suffix(lines[2], 4), element[1].element_id)

\* An element with a purpose, an empty name and a quoted, dotted id was
\* labelled with its purpose header and its id.
LabelledByRawId ==
    /\ pc = "labelled"
    /\ element[1].element_id = "SPDXRef-\"q\""
    /\ element[1].element_data =
          [name |-> Some(""), primaryPackagePurpose |-> Some("PackagePurpose.SOURCE")]
    /\ element[1].element_type = "Package"
    /\ lines = <<"[Package - PackagePurpose.SOURCE]", "ID: SPDXRef-'q'">>
    /\ node_label = Some("[Package - PackagePurpose.SOURCE]\nID: SPDXRef-'q'")

-----------------------------------------------------------------------------
(* escape_quotes applied to one text *)

\* the most characters of a text
MaxTextLen == 5

\* the two quotes, an ordinary character, a backslash and a line break
TextChars == {"\"", "'", "a", "\\", "\n"}

Texts == {Concat(t) : t \in SeqsUpTo(TextChars, MaxTextLen)}

InitEscape ==
    /\ pc = "escape"
    /\ text_in \in Texts
    /\ escaped = None
    /\ spdx_id = "" /\ node_id = None /\ element = None /\ node_label = None
    /\ args = None /\ fs = <<>> /\ processed_file = None /\ tmp_created = {}
    /\ doc = None /\ elements = <<>> /\ lines = <<>> /\ mermaid = None
    /\ stdout = <<>> /\ stderr = <<>> /\ exit_code = None

Escape ==
    /\ pc = "escape"
    /\ escaped' = Some(escape_quotes(text_in))
    /\ pc' = "escaped"
    /\ UNCHANGED <<spdx_id, node_id, text_in, element, node_label, args, fs,
                   processed_file, tmp_created, doc, elements, lines, mermaid,
                   stdout, stderr, exit_code>>

NextEscape == Escape

SpecEscape == InitEscape /\ [][NextEscape]_vars

\* C19: escape_quotes changes only double quotes: the result is as long as
\* the text, has "'" wherever the text has '"' and the text's character
\* everywhere else, holds no '"', is left unchanged by a second application,
\* and is the text itself when the text holds no '"'.
EscapeChangesOnlyQuotes ==
    pc = "escaped" =>
        LET e == escaped[1] IN
        /\ Len(e) = Len(text_in)
        /\ \A k \in 1..Len(text_in) :
              Char(e, k) = IF Char(text_in, k) = "\"" THEN "'" ELSE Char(text_in, k)
        /\ ~Contains(e, "\"")
        /\ escape_quotes(e) = e
        /\ ~Contains(text_in, "\"") => e = text_in

\* A text with both kinds of quote and a backslash was escaped.
EscapedQuotedText ==
    /\ pc = "escaped"
    /\ text_in = "\"a'\\\""
    /\ escaped = Some("'a'\\'")

\* the place of a node statement's element type in the extraction order
TypeRank(stmt) ==
    CASE StartsWith(StmtRest(stmt), "[\"[Document") -> 0
      [] StartsWith(StmtRest(stmt), "[\"[Package") -> 1
      [] StartsWith(StmtRest(stmt), "[\"[File") -> 2
      [] StartsWith(StmtRest(stmt), "[\"[Snippet") -> 3

\* the node statements run document, packages, files, snippets, and the
\* packages among them are the retained ones in source order
NodesFollowExtractionOrder ==
    LET n == Len(ElementNodeStmts)
        packages == SelectSeq(ElementNodeStmts, LAMBDA l : TypeRank(l) = 1)
    IN  /\ n >= 1
        /\ TypeRank(ElementNodeStmts[1]) = 0
        /\ \A i \in 1..(n - 1) :
              TypeRank(ElementNodeStmts[i]) <= TypeRank(ElementNodeStmts[i + 1])
        /\ \A i \in 1..Len(packages) :
              NodeStmtId(packages[i]) = sanitize_node_id(PackageItems(elements)[i][1])

\* C20: node statements are emitted in extraction order, the document node
\* first, then the package nodes in source order, then the file nodes, then
\* the snippet nodes, with and without a package cap that drops packages.
NodesInExtractionOrder ==
    pc = "generated" => NodesFollowExtractionOrder

\* the cap drops no package
CapDropsNothing ==
    \/ args[1].max_packages = None
    \/ Len(PackageItems(extract_elements_from_document(doc[1]))) <= args[1].max_packages[1]

\* The order when the cap drops nothing and the document entry was not
\* replaced by an element with its id.
NodesInExtractionOrderUncapped ==
    (/\ pc = "generated"
     /\ CapDropsNothing
     /\ TypeUnder(extract_elements_from_document(doc[1]), "SPDXRef-DOCUMENT")
           = Some("Document"))
    => NodesFollowExtractionOrder

-----------------------------------------------------------------------------
(* The order of the lines of a label *)

\* the list a key holds, empty when the key is missing, None or empty
ListOf(element_data, key) ==
    IF HasTruthy(element_data, key) THEN element_data[key][1] ELSE <<>>

\* what the lines of each item of the fixed order start with, item by item;
\* a checksum line starts with its algorithm and an external-reference line
\* with its reference type
ItemPrefixes(element_data) ==
    <<{"["}, {"Name: ", "ID: "}, {"Summary: "}, {"Version: "}, {"License: "},
      {"License Note: "}, {"Download: "}, {"Supplier: "}, {"Originator: "},
      {"Files Analyzed: "}, {"Verification: "},
      {DictGet(ListOf(element_data, "checksums")[i], "algorithm", "") \o ": " :
          i \in 1..Len(ListOf(element_data, "checksums"))},
      {"Copyright: "}, {"Comment: "}, {"Homepage: "},
      {"Created: "}, {"Creators: "}, {"Namespace: "}, {"Data License: "},
      {"License Declared: "}, {"Package File: "},
      {DictGet(ListOf(element_data, "externalRefs")[i], "referenceType", "") \o ": " :
          i \in 1..Len(ListOf(element_data, "externalRefs"))}>>

\* the item of the fixed order a line belongs to, by how it starts: the first
\* item one of whose prefixes starts the line, 0 when there is none
ItemOf(l, prefixes) ==
    LET items == {i \in 1..Len(prefixes) : \E p \in prefixes[i] : StartsWith(l, p)}
    IN IF items = {} THEN 0 ELSE CHOOSE i \in items : \A j \in items : i <= j

\* the first n characters of s
FirstChars(s, n) == SubSeq(s, 1, Min(n, Len(s)))

\* C21: under every flag combination the lines of a label follow the fixed
\* order of the items (header, name or ID, summary, version, licence, licence
\* note, the optional block, the document fields, the package fields), only
\* checksum lines and external-reference lines repeat an item, and the
\* checksum lines are those of the first two checksums at most, each the
\* algorithm, ": ", the first 12 characters of the value and "...".
LabelLinesInFixedOrder ==
    pc = "labelled" =>
        LET d == element[1].element_data
            prefixes == ItemPrefixes(d)
            item == [i \in 1..Len(lines) |-> ItemOf(lines[i], prefixes)]
            sums == ListOf(d, "checksums")
            shown == SelectSeq(lines, LAMBDA l : ItemOf(l, prefixes) = 12)
        IN /\ \A i \in 1..Len(lines) : item[i] # 0
           /\ \A i \in 1..(Len(lines) - 1) :
                 \/ item[i] < item[i + 1]
                 \/ item[i] = item[i + 1] /\ item[i] \in {12, 22}
           /\ Len(shown) <= Min(2, Len(sums))
           /\ ~args[1].compact => Len(shown) = Min(2, Len(sums))
           /\ \A i \in 1..Len(shown) :
                 shown[i] = DictGet(sums[i], "algorithm", "") \o ": "
                            \o FirstChars(DictGet(sums[i], "checksumValue", ""), 12)
                            \o "..."

\* C21 witness: a package with every key set is labelled in full: twenty
\* lines, the two checksum lines twelfth and thirteenth, the third checksum
\* left out.
FullLabelRendered ==
    /\ pc = "labelled"
    /\ element[1].element_data = FullDict
    /\ element[1].element_type = "Package"
    /\ ~args[1].compact /\ ~args[1].exclude_external_refs
    /\ Len(lines) = 20
    /\ lines[12] = "SHA\"256: ab\"cd..." /\ lines[13] = "MD5: ..."
    /\ lines[14] = "Copyright: (c) x" /\ lines[16] = "Homepage: https://h.example"

-----------------------------------------------------------------------------
(* Compact mode *)

\* the items of the fixed order that have a line in the label
ItemsShown ==
    {ItemOf(lines[i], ItemPrefixes(element[1].element_data)) : i \in 1..Len(lines)}

\* the element is a Document whose created, creators, namespace and data
\* licence are all present
DocumentFieldsPresent ==
    /\ element[1].element_type = "Document"
    /\ \A k \in {"created", "creators", "namespace", "dataLicense"} :
          HasTruthy(element[1].element_data, k)

\* C22 as claimed: compact mode removes every line of the optional block and
\* no line of the document block: a Document with its four fields present
\* shows Created, Creators, Namespace and Data License with compact unset and
\* with compact set.
CompactKeepsDocumentFields ==
    pc = "labelled" =>
        /\ args[1].compact => ItemsShown \cap (7..15) = {}
        /\ DocumentFieldsPresent => (16..19) \subseteq ItemsShown

\* C22 amended: compact mode removes every line of the optional block and
\* every line of the document block: a Document with its four fields present
\* shows Created, Creators, Namespace and Data License with compact unset,
\* and none of them with compact set.
CompactDropsOptionalAndDocumentFields ==
    pc = "labelled" =>
        /\ args[1].compact => ItemsShown \cap (7..19) = {}
        /\ DocumentFieldsPresent /\ ~args[1].compact => (16..19) \subseteq ItemsShown

\* C22 witness: the full dictionary labelled as a Document in compact mode
\* keeps its six leading lines only.
CompactDocumentLabelled ==
    /\ pc = "labelled"
    /\ element[1].element_data = FullDict
    /\ DocumentFieldsPresent
    /\ args[1].compact
    /\ Len(lines) = 6
    /\ lines[6] = "License Note: a note"

-----------------------------------------------------------------------------
(* External references *)

\* C23: a Package with r external references shows min(r, N) external
\* reference lines, N = 1 in compact mode and 2 otherwise: those of its first
\* references in order, each the reference type, ": " and the locator
\* truncated to 40; with the exclusion flag it shows none; an element of
\* another type shows no licence-declared, package-file or external
\* reference line.
ExternalRefLinesLimited ==
    pc = "labelled" =>
        LET d == element[1].element_data
            refs == ListOf(d, "externalRefs")
            prefixes == ItemPrefixes(d)
            shown == SelectSeq(lines, LAMBDA l : ItemOf(l, prefixes) = 22)
            N == IF args[1].compact THEN 1 ELSE 2
            type(i) == DictGet(refs[i], "referenceType", "")
        IN /\ (element[1].element_type = "Package" /\ ~args[1].exclude_external_refs)
                => /\ Len(shown) = Min(Len(refs), N)
                   /\ \A i \in 1..Len(shown) :
                         /\ StartsWith(shown[i], type(i) \o ": ")
                         /\ RenderedUnderLimit(Suffix(shown[i], Len(type(i)) + 2),
                                               DictGet(refs[i], "referenceLocator", ""),
                                               40)
           /\ (element[1].element_type = "Package" /\ args[1].exclude_external_refs)
                => shown = <<>>
           /\ element[1].element_type # "Package" => ItemsShown \cap (20..22) = {}

\* C23 witness: of the three references of a package one is shown in compact
\* mode, the first, as the label's last line.
FirstReferenceShownInCompact ==
    /\ pc = "labelled"
    /\ element[1].element_type = "Package"
    /\ Len(ListOf(element[1].element_data, "externalRefs")) = 3
    /\ args[1].compact /\ ~args[1].exclude_external_refs
    /\ lines[Len(lines)] = "cpe\"23\"Type: cpe:2.3:a"
    /\ \A i \in 1..Len(lines) : ~StartsWith(lines[i], ": pkg:nix/p")

-----------------------------------------------------------------------------
(* A line for each value that is present *)

\* the key has a value: it is in the dictionary, not None and, for a text or
\* a list, not empty
HasValue(element_data, key) ==
    /\ Has(element_data, key)
    /\ element_data[key] # None
    /\ key = "filesAnalyzed" \/ Len(element_data[key][1]) > 0

\* the keys rendered for every element type, each with its item of the
\* fixed order
OptionalItems ==
    {<<"summary", 3>>, <<"version", 4>>, <<"licenseConcluded", 5>>,
     <<"licenseComments", 6>>, <<"downloadLocation", 7>>, <<"supplier", 8>>,
     <<"originator", 9>>, <<"filesAnalyzed", 10>>, <<"verificationCode", 11>>,
     <<"checksums", 12>>, <<"copyrightText", 13>>, <<"comment", 14>>,
     <<"homepage", 15>>}

\* C24 as claimed: without compact mode the line of an optional attribute is
\* in the label exactly when the attribute has a value; a missing key and a
\* key that holds None give no line, filesAnalyzed included, and a
\* filesAnalyzed of false gives one.
FieldLineIffValuePresent ==
    (pc = "labelled" /\ ~args[1].compact) =>
        \A ki \in OptionalItems :
            ki[2] \in ItemsShown <=> HasValue(element[1].element_data, ki[1])

-----------------------------------------------------------------------------
(* The flags only remove lines *)

\* a is b with some of its entries left out
RECURSIVE IsSubsequence(_, _)
IsSubsequence(a, b) ==
    IF a = <<>> THEN TRUE
    ELSE IF b = <<>> THEN FALSE
    ELSE IF Head(a) = Head(b) THEN IsSubsequence(Tail(a), Tail(b))
    ELSE IsSubsequence(a, Tail(b))

\* the lines of the labelled element under other flags
LinesUnder(compact, exclude_external_refs) ==
    LabelLines(element[1].element_id, element[1].element_data, element[1].element_type,
               compact, exclude_external_refs)

\* C25: the lines of the compact label are a subsequence of the lines of the
\* label without compact mode under the same exclusion flag, the lines of the
\* label with external references excluded are a subsequence of the lines
\* with them included under the same compact flag, and the first two lines
\* are the same under all four flag combinations.
FlagsOnlyRemoveLines ==
    pc = "labelled" =>
        /\ ~args[1].compact =>
              IsSubsequence(LinesUnder(TRUE, args[1].exclude_external_refs), lines)
        /\ ~args[1].exclude_external_refs =>
              IsSubsequence(LinesUnder(args[1].compact, TRUE), lines)
        /\ Len(lines) >= 2
        /\ \A c \in BOOLEAN, x \in BOOLEAN :
              SubSeq(LinesUnder(c, x), 1, 2) = SubSeq(lines, 1, 2)

\* C25 witness: the full label of a package has twenty lines, of which
\* compact mode keeps seven and the exclusion of external references
\* eighteen.
FlagsRemovedLines ==
    /\ pc = "labelled"
    /\ element[1].element_type = "Package"
    /\ ~args[1].compact /\ ~args[1].exclude_external_refs
    /\ Len(lines) = 20
    /\ Len(LinesUnder(TRUE, FALSE)) = 7
    /\ Len(LinesUnder(FALSE, TRUE)) = 18
    /\ Len(LinesUnder(TRUE, TRUE)) = 6

-----------------------------------------------------------------------------
(* The package cap over every integer *)

\* the larger of two integers
Max(a, b) == IF a >= b THEN a ELSE b

\* the node statements of packages
PackageNodeStmts ==
    SelectSeq(ElementNodeStmts, LAMBDA l : StartsWith(StmtRest(l), "[\"[Package"))

\* C26 as claimed: whatever integer N is given as the maximum package count,
\* zero and negative ones included, the diagram has at most max(N, 0) package
\* nodes, and every document, file and snippet element of the extraction
\* still has its node.
CapNeverExceeded ==
    (pc = "generated" /\ args[1].max_packages # None) =>
        LET all == extract_elements_from_document(doc[1])
        IN /\ Len(PackageNodeStmts) <= Max(args[1].max_packages[1], 0)
           /\ OtherItems(elements) = OtherItems(all)
           /\ Len(ElementNodeStmts) - Len(PackageNodeStmts) = Len(OtherItems(all))
====
